---------------------------- MODULE Spec2Model ----------------------------
(***************************************************************************)
(* Model of the Agent Autonomous Engine (src/engine.py): the engine's      *)
(* start()/stop(), one runner thread per launched agent, the activation    *)
(* cycle with its outcome classification, and the hand-off to the          *)
(* activity storage.                                                       *)
(*                                                                         *)
(* Threads: the thread that calls start() ("main"), one thread per         *)
(* launched runner, and the caller of stop() (another thread, as in        *)
(* src/tests/test_engine.py:46-57).  Every action is one step of one       *)
(* thread; the steps of different threads interleave freely.               *)
(*                                                                         *)
(* Spec is the engine with its runner threads.  SpecRunner is one runner   *)
(* built and driven without an engine, as src/tests/test_agent_runner.py   *)
(* does, with the history of its attempts and hand-offs recorded.          *)
(* SpecTimed is an engine with one agent whose activations always succeed, *)
(* with its status printed.  SpecSiblings is an engine with two runners,   *)
(* one of which never succeeds, under fair scheduling.                     *)
(***************************************************************************)
EXTENDS Integers, Sequences, FiniteSets, TLC

(***************************************************************************)
(* Bounds of the model.                                                    *)
(***************************************************************************)
\* Counted activations (successes and errors) the runners of an engine make,
\* all together, before the model stops them.
MaxAttempts == 2
\* Activation attempts a runner driven on its own makes before the model
\* stops it.
MaxTraced == 3
\* Calls of stop() the environment makes.
MaxStops == 2
\* Activation attempts the runner of the timed scenario makes before the
\* model stops it.
MaxTimed == 4
\* Activation attempts each of two sibling runners makes before the model
\* stops it.
MaxSibling == 2
\* Counted activations the runners of an engine make, all together, while
\* its status is printed.
MaxStatus == 1
\* Termination signals delivered to the process.
MaxSignals == 2
\* Entries of the agents list of a configuration file.
MaxEntries == 2
\* Rows of the table of activities.
MaxRows == 3
\* Days that pass while the table of activities is written and read.
MaxClock == 2
\* activations attempted by the runners of a process that receives signals
MaxSignalled == 1

\* Configuration slots (entries of config.agents) the model enumerates.
MaxAgents == 2
Slots == 1..MaxAgents

\* time.sleep chunk of AgentRunner.run, in tenths of a second (chunk_size = 1.0).
ChunkTenths == 10

(***************************************************************************)
(* Text.  A Python str is a sequence of characters; str.lower() and the    *)
(* `in` substring test are computed on that sequence.                      *)
(***************************************************************************)
UpperCase == <<"A","B","C","D","E","F","G","H","I","J","K","L","M",
               "N","O","P","Q","R","S","T","U","V","W","X","Y","Z">>
LowerCase == <<"a","b","c","d","e","f","g","h","i","j","k","l","m",
               "n","o","p","q","r","s","t","u","v","w","x","y","z">>

\* str.lower() on one character.
LowerChar(c) ==
    IF \E k \in 1..Len(UpperCase) : UpperCase[k] = c
    THEN LowerCase[CHOOSE k \in 1..Len(UpperCase) : UpperCase[k] = c]
    ELSE c

\* str.lower()
Lower(s) == [k \in 1..Len(s) |-> LowerChar(s[k])]

\* sub in s
Contains(s, sub) ==
    \E k \in 0..(Len(s) - Len(sub)) :
        \A j \in 1..Len(sub) : s[k + j] = sub[j]

Str429 == <<"4","2","9">>
StrRateLimit == <<"r","a","t","e","_","l","i","m","i","t">>
StrQuota == <<"q","u","o","t","a">>

(***************************************************************************)
(* The failures the activation client raises in the model.  A failure is   *)
(* the text of str(e): a core message, possibly wrapped in a prefix and a  *)
(* suffix that say nothing about throttling.  `throttling` records whether *)
(* the core message reports throttling or quota exhaustion of the service  *)
(* (HTTP 429, rate-limit wording, quota wording).                          *)
(*   1 "429 rate limit"        2 "connection refused"                      *)
(*   3 "Rate limit exceeded"   4 "rate_limit"      5 "RATE_LIMIT"          *)
(*   6 "Quota exceeded"        7 "insufficient_quota"                      *)
(*   8 "Connection error"                                                  *)
(*   9 "429 Rate limit exceeded for LLM model provider"   10 "timeout"     *)
(***************************************************************************)
Cores == <<
    [text |-> <<"4","2","9"," ","r","a","t","e"," ","l","i","m","i","t">>,
     throttling |-> TRUE],
    [text |-> <<"c","o","n","n","e","c","t","i","o","n"," ","r","e","f","u","s","e","d">>,
     throttling |-> FALSE],
    [text |-> <<"R","a","t","e"," ","l","i","m","i","t"," ","e","x","c","e","e","d","e","d">>,
     throttling |-> TRUE],
    [text |-> <<"r","a","t","e","_","l","i","m","i","t">>,
     throttling |-> TRUE],
    [text |-> <<"R","A","T","E","_","L","I","M","I","T">>,
     throttling |-> TRUE],
    [text |-> <<"Q","u","o","t","a"," ","e","x","c","e","e","d","e","d">>,
     throttling |-> TRUE],
    [text |-> <<"i","n","s","u","f","f","i","c","i","e","n","t","_","q","u","o","t","a">>,
     throttling |-> TRUE],
    [text |-> <<"C","o","n","n","e","c","t","i","o","n"," ","e","r","r","o","r">>,
     throttling |-> FALSE],
    [text |-> <<"4","2","9"," ","R","a","t","e"," ","l","i","m","i","t"," ","e","x","c","e","e","d","e","d"," ","f","o","r"," ","L","L","M"," ","m","o","d","e","l"," ","p","r","o","v","i","d","e","r">>,
     throttling |-> TRUE],
    [text |-> <<"t","i","m","e","o","u","t">>,
     throttling |-> FALSE] >>

\* "", "Error: ", "HTTP "
Prefixes == <<
    << >>,
    <<"E","r","r","o","r",":"," ">>,
    <<"H","T","T","P"," ">> >>

\* "", "!", " (retry later)"
Suffixes == <<
    << >>,
    <<"!">>,
    <<" ","(","r","e","t","r","y"," ","l","a","t","e","r",")">> >>

\* A failure is identified by a number: core, then prefix, then suffix.
FailureIds == 1..(Len(Cores) * Len(Prefixes) * Len(Suffixes))

CoreOf(f) == Cores[((f - 1) % Len(Cores)) + 1]
PrefixOf(f) == Prefixes[(((f - 1) \div Len(Cores)) % Len(Prefixes)) + 1]
SuffixOf(f) == Suffixes[((f - 1) \div (Len(Cores) * Len(Prefixes))) + 1]

\* str(e) of failure f
FailureText(f) == PrefixOf(f) \o CoreOf(f).text \o SuffixOf(f)

\* The failures the activation client raises when the whole engine runs:
\* "429 rate limit" and "connection refused".
EngineFailures == {1, 2}

\* error_message = None
NoError == 0

(***************************************************************************)
(* State.                                                                  *)
(***************************************************************************)
VARIABLES
    \* EngineConfig.agents: sequence of [agent_id, enabled, interval_tenths]
    agents,
    \* the agent_ids argument of start(): [given, ids]
    agent_ids,
    \* whether an activity storage is attached
    activity_storage,
    \* AgentAutonomousEngine.running
    running,
    \* AgentAutonomousEngine.agent_runners, in insertion order: [key, runner]
    agent_runners,
    \* AgentAutonomousEngine.agent_threads, in insertion order: [key, runner]
    agent_threads,
    \* where the thread executing start() is
    mpc,
    \* agents_to_run still to be launched by start() (slots)
    to_run,
    \* where each runner thread is
    pc,
    \* AgentRunner.running of the runner of each slot
    r_running,
    \* AgentRunner.stats of the runner of each slot
    stats,
    \* the `for _ in range(...)` counter of the runner's wait
    chunk,
    \* _activate_agent's locals: response, status, error_message
    response, status, error_message,
    \* whether the history below is recorded (SpecRunner) or not (Spec)
    tracing,
    \* the activation attempts the model lets the runners make
    budget,
    \* history: the outcome of every activation attempt of a runner, in order
    outcomes,
    \* history: the records handed to store_activity by a runner, in order,
    \* each with whether store_activity stored it
    handed,
    \* history: the time.sleep(chunk_size) calls of a runner that have returned
    slept,
    \* history: the activation calls a runner has made
    calls,
    \* where the thread executing stop() is, its dict iterator, and the calls made
    spc, it_pos, it_size, stops,
    \* the rows of the table print_status printed last
    table,
    \* the calls of _signal_handler in progress in the main thread, innermost
    \* last: [hpc, pos, signum]
    handlers,
    \* the signals delivered, the calls of stop() made by _signal_handler, and
    \* whether sys.exit(0) has ended the process
    signals, stop_calls, exited,
    \* the configuration file load_config reads and the process environment
    config_file, environ,
    \* where the caller of load_config is, and what load_config gave it
    lpc, config,
    \* the rows of the table agent_activities in the order of their storing,
    \* the time (datetime.utcnow(), in days), and what get_agent_stats
    \* returned last
    activities, clock, result,
    \* the pages a client of get_activities has taken with one query, and what
    \* get_agents returned last
    listing, known

vars == <<agents, agent_ids, activity_storage, running, agent_runners,
          agent_threads, mpc, to_run, pc, r_running, stats, chunk,
          response, status, error_message, tracing, budget, outcomes, handed,
          slept, calls, spc, it_pos, it_size, stops, table,
          handlers, signals, stop_calls, exited,
          config_file, environ, lpc, config, activities, clock, result,
          listing, known>>

configVars == <<agents, agent_ids, activity_storage, tracing, budget>>
signalVars == <<handlers, signals, stop_calls, exited>>
loadVars == <<config_file, environ, lpc, config>>
dbVars == <<activities, clock, result, listing, known>>
\* what neither start(), nor a runner, nor stop() writes
outerVars == <<configVars, loadVars, dbVars, table, signalVars>>
engineVars == <<running, agent_runners, agent_threads>>
mainVars == <<mpc, to_run>>
localVars == <<response, status, error_message>>
histVars == <<outcomes, handed, slept, calls>>
stopVars == <<spc, it_pos, it_size, stops>>

(***************************************************************************)
(* Configurations.                                                         *)
(***************************************************************************)
\* AgentConfig; the interval is cycle_interval_minutes * 60 seconds, held in
\* tenths of a second
AgentConfig(id, en, iv) == [agent_id |-> id, enabled |-> en, interval_tenths |-> iv]

\* agent_ids of start(): None, [] and lists of identifiers
NoIds == [given |-> FALSE, ids |-> {}]
Ids(S) == [given |-> TRUE, ids |-> S]

Scenario(as, ids, st) == [agents |-> as, agent_ids |-> ids, activity_storage |-> st]

\* The engines explored: the configured agents (none, one or two, enabled or
\* not, with distinct or equal identifiers), the agent_ids given to start(),
\* and whether a storage is attached.
Scenarios == {
    Scenario(<< >>, NoIds, TRUE),
    Scenario(<< AgentConfig("a", TRUE, 10) >>, NoIds, TRUE),
    Scenario(<< AgentConfig("a", TRUE, 20) >>, Ids({}), FALSE),
    Scenario(<< AgentConfig("a", TRUE, 10) >>, Ids({"zz"}), TRUE),
    Scenario(<< AgentConfig("a", FALSE, 10) >>, Ids({"a"}), TRUE),
    Scenario(<< AgentConfig("a", TRUE, 10), AgentConfig("b", TRUE, 10) >>, NoIds, TRUE),
    Scenario(<< AgentConfig("a", TRUE, 10), AgentConfig("b", TRUE, 10) >>, Ids({"b"}), FALSE),
    Scenario(<< AgentConfig("a", TRUE, 10), AgentConfig("b", FALSE, 10) >>, Ids({"a", "b"}), TRUE),
    Scenario(<< AgentConfig("a", FALSE, 10), AgentConfig("b", FALSE, 10) >>, NoIds, TRUE),
    Scenario(<< AgentConfig("a", TRUE, 10), AgentConfig("a", TRUE, 10) >>, Ids({"a"}), FALSE),
    Scenario(<< AgentConfig("a", TRUE, 10), AgentConfig("a", FALSE, 10) >>, Ids({}), TRUE) }

\* AgentRunner.__init__: self.stats
InitStats == [cycles_completed |-> 0, errors |-> 0,
              last_activation |-> 0, started_at |-> 0]

(***************************************************************************)
(* Python dict, kept in insertion order.                                   *)
(***************************************************************************)
HasKey(d, k) == \E n \in 1..Len(d) : d[n].key = k

\* d[k] = v
DictPut(d, k, v) ==
    IF HasKey(d, k)
    THEN [n \in 1..Len(d) |-> IF d[n].key = k THEN [key |-> k, runner |-> v] ELSE d[n]]
    ELSE Append(d, [key |-> k, runner |-> v])

\* d.values()
DictValues(d) == {d[n].runner : n \in 1..Len(d)}

(***************************************************************************)
(* Initial states.                                                         *)
(***************************************************************************)
\* A key of a mapping (a YAML mapping, os.environ): absent, or present with
\* a value.
Absent(v) == [has |-> FALSE, val |-> v]
Present(v) == [has |-> TRUE, val |-> v]

\* Python's None where a string is expected
None == "<None>"

\* No file is read and nothing is loaded.
NoLoad ==
    /\ config_file = [exists |-> FALSE]
    /\ environ = [LETTA_API_KEY |-> Absent("")]
    /\ lpc = "idle"
    /\ config = [error |-> "none"]

\* No runner exists and stop() has not been called.
InitEngine ==
    /\ running = FALSE
    /\ agent_runners = << >>
    /\ agent_threads = << >>
    /\ to_run = << >>
    /\ r_running = [r \in Slots |-> FALSE]
    /\ stats = [r \in Slots |-> InitStats]
    /\ chunk = [r \in Slots |-> 0]
    /\ response = [r \in Slots |-> FALSE]
    /\ status = [r \in Slots |-> "none"]
    /\ error_message = [r \in Slots |-> NoError]
    /\ outcomes = [r \in Slots |-> << >>]
    /\ handed = [r \in Slots |-> << >>]
    /\ slept = [r \in Slots |-> 0]
    /\ calls = [r \in Slots |-> 0]
    /\ table = << >>
    /\ handlers = << >>
    /\ signals = 0
    /\ stop_calls = 0
    /\ exited = FALSE
    /\ spc = "idle"
    /\ it_pos = 0
    /\ it_size = 0
    /\ stops = 0

\* get_activities(agent_id=None, limit=100, offset=0, start_time=None,
\* end_time=None): the arguments of a call without arguments, the limit apart
NoQuery ==
    [agent_id |-> None, limit |-> 1, start_time |-> Absent(0), end_time |-> Absent(0)]

\* The table of activities is empty and has not been read.
NoStore ==
    /\ activities = << >>
    /\ clock = 0
    /\ result = [agent_id |-> "none"]
    /\ listing = [open |-> FALSE, query |-> NoQuery, pages |-> << >>]
    /\ known = << >>

\* The engine was built from a configuration made in the program.
InitRest ==
    /\ NoLoad
    /\ NoStore
    /\ InitEngine

\* AgentAutonomousEngine.__init__ has run.
Init ==
    /\ \E sc \in Scenarios :
          /\ agents = sc.agents
          /\ agent_ids = sc.agent_ids
          /\ activity_storage = sc.activity_storage
    /\ tracing = FALSE
    /\ budget = MaxAttempts
    /\ mpc = "idle"
    /\ pc = [r \in Slots |-> "none"]
    /\ InitRest

(***************************************************************************)
(* AgentAutonomousEngine.start                                             *)
(***************************************************************************)
\* Mutant: only None counts as no subset; an empty list selects nothing.
NoSubsetNoneOnly(ids) == ~ids.given

\* `not agent_ids`
NoSubset(ids) == ~ids.given \/ ids.ids = {}

\* Mutant: an agent named in agent_ids is selected whether enabled or not.
SelectedNamedRegardless(a, ids) ==
    (a.enabled /\ NoSubset(ids)) \/ a.agent_id \in ids.ids

\* the filter of agents_to_run
Selected(a, ids) == a.enabled /\ (NoSubset(ids) \/ a.agent_id \in ids.ids)

\* agents_to_run, as slots of config.agents in configured order
AgentsToRun(as, ids) ==
    SelectSeq([k \in 1..Len(as) |-> k], LAMBDA i : Selected(as[i], ids))

\* Mutant: running is set before the selection is looked at.
StartSelectFlagFirst ==
    /\ mpc = "idle"
    /\ to_run' = AgentsToRun(agents, agent_ids)
    /\ running' = TRUE
    /\ mpc' = IF AgentsToRun(agents, agent_ids) = << >> THEN "returned" ELSE "launch"
    /\ UNCHANGED <<outerVars, agent_runners, agent_threads, pc, r_running,
                   stats, chunk, localVars, histVars, stopVars>>

\* start(): select the agents; return when there are none, else running = True
StartSelect ==
    /\ mpc = "idle"
    /\ to_run' = AgentsToRun(agents, agent_ids)
    /\ IF AgentsToRun(agents, agent_ids) = << >>
       THEN /\ mpc' = "returned"
            /\ UNCHANGED running
       ELSE /\ mpc' = "launch"
            /\ running' = TRUE
    /\ UNCHANGED <<outerVars, agent_runners, agent_threads, pc, r_running,
                   stats, chunk, localVars, histVars, stopVars>>

\* start(): one iteration of the launch loop: build the runner, register it,
\* start its thread, register the thread
Launch ==
    /\ mpc = "launch"
    /\ to_run # << >>
    /\ LET i == Head(to_run)
           k == agents[i].agent_id
       IN /\ agent_runners' = DictPut(agent_runners, k, i)
          /\ agent_threads' = DictPut(agent_threads, k, i)
          /\ pc' = [pc EXCEPT ![i] = "ready"]
          /\ r_running' = [r_running EXCEPT ![i] = FALSE]
          /\ stats' = [stats EXCEPT ![i] = InitStats]
    /\ to_run' = Tail(to_run)
    /\ mpc' = IF Tail(to_run) = << >> THEN "wait" ELSE "launch"
    /\ UNCHANGED <<outerVars, running, chunk, localVars, histVars, stopVars>>

\* start(): the launch loop's except branch. thread.start() raises (the
\* interpreter cannot start another thread) after the runner was registered:
\* the runner stays in agent_runners with no thread, and the loop goes on
LaunchFails ==
    /\ mpc = "launch"
    /\ to_run # << >>
    /\ LET i == Head(to_run)
           k == agents[i].agent_id
       IN /\ agent_runners' = DictPut(agent_runners, k, i)
          /\ r_running' = [r_running EXCEPT ![i] = FALSE]
          /\ stats' = [stats EXCEPT ![i] = InitStats]
    /\ to_run' = Tail(to_run)
    /\ mpc' = IF Tail(to_run) = << >> THEN "wait" ELSE "launch"
    /\ UNCHANGED <<outerVars, running, agent_threads, pc, chunk, localVars,
                   histVars, stopVars>>

\* Thread.is_alive()
IsAlive(r) == pc[r] \notin {"none", "done"}

\* Mutant: the wait loop does not look at the engine's flag.
WaitIgnoresFlag ==
    /\ mpc = "wait"
    /\ ~ \E r \in DictValues(agent_threads) : IsAlive(r)
    /\ mpc' = "returned"
    /\ UNCHANGED <<outerVars, engineVars, to_run, pc, r_running, stats, chunk,
                   localVars, histVars, stopVars>>

\* start(): the wait loop ends, because no registered thread is alive or
\* because running is False after a sleep; until then it only sleeps
Wait ==
    /\ mpc = "wait"
    /\ \/ ~ \E r \in DictValues(agent_threads) : IsAlive(r)
       \/ ~running
    /\ mpc' = "returned"
    /\ UNCHANGED <<outerVars, engineVars, to_run, pc, r_running, stats, chunk,
                   localVars, histVars, stopVars>>

(***************************************************************************)
(* AgentRunner.run and AgentRunner._activate_agent                         *)
(***************************************************************************)
\* The classification of a failure by the text of str(e).
Classify(text) ==
    IF \/ Contains(text, Str429)
       \/ Contains(Lower(text), StrRateLimit)
       \/ Contains(Lower(text), StrQuota)
    THEN "rate_limit"
    ELSE "error"

\* Mutant: the cycle is not counted.
StatsOnSuccessUncounted(s, at) == [s EXCEPT !.last_activation = at]

\* Mutant: a success clears the error count.
StatsOnSuccessClearsErrors(s, at) ==
    [s EXCEPT !.cycles_completed = @ + 1, !.last_activation = at, !.errors = 0]

\* Mutant: the time of the call is kept whatever follows.
StatsOnFailureStamped(s, st) ==
    IF st = "error"
    THEN [s EXCEPT !.errors = @ + 1, !.last_activation = 1]
    ELSE [s EXCEPT !.last_activation = 1]

\* The stats after the activation call returned; `at` stands for datetime.now().
StatsOnSuccess(s, at) ==
    [s EXCEPT !.cycles_completed = @ + 1, !.last_activation = at]

\* Mutant: no failure is counted.
StatsOnFailureUncounted(s, st) == s

\* Mutant: every failure is counted, a rate limit too.
StatsOnFailureAllCounted(s, st) == [s EXCEPT !.errors = @ + 1]

\* Mutant: an error restarts the count of completed cycles.
StatsOnFailureResets(s, st) ==
    IF st = "error" THEN [s EXCEPT !.errors = @ + 1, !.cycles_completed = 0] ELSE s

\* The stats after the activation call raised and was classified as `st`.
StatsOnFailure(s, st) ==
    IF st = "error" THEN [s EXCEPT !.errors = @ + 1] ELSE s

\* Mutant: the record is tagged by whether there is an error message, so a
\* rate limit is recorded as an error.
ActivityRecordTwoTags(r) ==
    [status |-> IF error_message[r] # NoError THEN "error" ELSE "success",
     cycle_number |-> stats[r].cycles_completed,
     response |-> response[r],
     error_message |-> error_message[r] # NoError]

\* Mutant: the record is numbered by the attempt, not by the successes.
ActivityRecordAttemptNumber(r) ==
    [status |-> status[r],
     cycle_number |-> calls[r],
     response |-> response[r],
     error_message |-> error_message[r] # NoError]

\* Mutant: the message is passed on for errors only, not for rate limits.
ActivityRecordMessageOnError(r) ==
    [status |-> status[r],
     cycle_number |-> stats[r].cycles_completed,
     response |-> response[r],
     error_message |-> status[r] = "error"]

\* The record _activate_agent hands to store_activity: the status, the cycle
\* number, whether a response is passed (not None) and whether an error
\* message is passed (not None).
ActivityRecord(r) ==
    [status |-> status[r],
     cycle_number |-> stats[r].cycles_completed,
     response |-> response[r],
     error_message |-> error_message[r] # NoError]

\* Mutant: after a failed activation the runner backs off for ten chunks, as
\* run()'s own exception handler does.
ChunksBackoff(r) ==
    IF outcomes[r] # << >> /\ outcomes[r][Len(outcomes[r])] # "success"
    THEN 10
    ELSE agents[r].interval_tenths \div ChunkTenths

\* int(sleep_seconds / chunk_size)
Chunks(r) == agents[r].interval_tenths \div ChunkTenths

RECURSIVE SumCounted(_)
SumCounted(S) ==
    IF S = {} THEN 0
    ELSE LET x == CHOOSE y \in S : TRUE
         IN stats[x].cycles_completed + stats[x].errors + SumCounted(S \ {x})

\* Whether the model lets runner r make another activation attempt.
MayAttempt(r) ==
    IF tracing THEN Len(outcomes[r]) < budget
    ELSE SumCounted(Slots) < budget

\* history: outcome st of an attempt of runner r is recorded
Traced(r, st) ==
    outcomes' = IF tracing THEN [outcomes EXCEPT ![r] = Append(@, st)] ELSE outcomes

\* Mutant: run() waits an interval before its first activation.
RunBeginWaitsFirst(r) ==
    /\ pc[r] = "ready"
    /\ r_running' = [r_running EXCEPT ![r] = TRUE]
    /\ stats' = [stats EXCEPT ![r].started_at = 1]
    /\ pc' = [pc EXCEPT ![r] = "loop_top"]
    /\ UNCHANGED <<outerVars, engineVars, mainVars, chunk, localVars,
                   histVars, stopVars>>

\* run(): self.running = True; stats["started_at"] = now; first activation follows
RunBegin(r) ==
    /\ pc[r] = "ready"
    /\ r_running' = [r_running EXCEPT ![r] = TRUE]
    /\ stats' = [stats EXCEPT ![r].started_at = 1]
    /\ pc' = [pc EXCEPT ![r] = "activate"]
    /\ UNCHANGED <<outerVars, engineVars, mainVars, chunk, localVars,
                   histVars, stopVars>>

\* Mutant: the activation calls of the runners are serialised: a runner
\* makes its call only when no other runner is in one.
ActivateCallSerialized(r) ==
    /\ pc[r] = "activate"
    /\ MayAttempt(r)
    /\ \A q \in Slots \ {r} : pc[q] # "calling"
    /\ response' = [response EXCEPT ![r] = FALSE]
    /\ status' = [status EXCEPT ![r] = "success"]
    /\ error_message' = [error_message EXCEPT ![r] = NoError]
    /\ pc' = [pc EXCEPT ![r] = "calling"]
    /\ calls' = IF tracing THEN [calls EXCEPT ![r] = @ + 1] ELSE calls
    /\ UNCHANGED <<outerVars, engineVars, mainVars, r_running, stats, chunk,
                   outcomes, handed, slept, stopVars>>

\* Mutant: the next activation call is made as soon as the previous one is
\* classified, before its hand-over to the storage.
ActivateCallEarly(r) ==
    /\ pc[r] \in {"activate", "finally"}
    /\ MayAttempt(r)
    /\ response' = [response EXCEPT ![r] = FALSE]
    /\ status' = [status EXCEPT ![r] = "success"]
    /\ error_message' = [error_message EXCEPT ![r] = NoError]
    /\ pc' = [pc EXCEPT ![r] = "calling"]
    /\ calls' = IF tracing THEN [calls EXCEPT ![r] = @ + 1] ELSE calls
    /\ UNCHANGED <<outerVars, engineVars, mainVars, r_running, stats, chunk,
                   outcomes, handed, slept, stopVars>>

\* _activate_agent(): the locals are set and the activation call is made
ActivateCall(r) ==
    /\ pc[r] = "activate"
    /\ MayAttempt(r)
    /\ response' = [response EXCEPT ![r] = FALSE]
    /\ status' = [status EXCEPT ![r] = "success"]
    /\ error_message' = [error_message EXCEPT ![r] = NoError]
    /\ pc' = [pc EXCEPT ![r] = "calling"]
    /\ calls' = IF tracing THEN [calls EXCEPT ![r] = @ + 1] ELSE calls
    /\ UNCHANGED <<outerVars, engineVars, mainVars, r_running, stats, chunk,
                   outcomes, handed, slept, stopVars>>

\* the activation call returns: the try block runs to its end
CallReturns(r) ==
    /\ pc[r] = "calling"
    /\ response' = [response EXCEPT ![r] = TRUE]
    /\ stats' = [stats EXCEPT ![r] =
                    StatsOnSuccess(@, @.cycles_completed + @.errors + 1)]
    /\ Traced(r, "success")
    /\ pc' = [pc EXCEPT ![r] = "finally"]
    /\ UNCHANGED <<outerVars, engineVars, mainVars, r_running, chunk, status,
                   error_message, handed, slept, calls, stopVars>>

\* The classification of every failure of the model (Classify, tabulated).
StatusOf == [f \in FailureIds |-> Classify(FailureText(f))]

\* Mutant: a failure classified as an error is counted and then leaves
\* _activate_agent and run().
CallRaisesEscapes(r, f) ==
    /\ pc[r] = "calling"
    /\ LET st == StatusOf[f]
       IN /\ status' = [status EXCEPT ![r] = st]
          /\ stats' = [stats EXCEPT ![r] = StatsOnFailure(@, st)]
          /\ Traced(r, st)
          /\ pc' = [pc EXCEPT ![r] = IF st = "error" THEN "done" ELSE "finally"]
    /\ error_message' = [error_message EXCEPT ![r] = f]
    /\ UNCHANGED <<outerVars, engineVars, mainVars, r_running, chunk,
                   response, handed, slept, calls, stopVars>>

\* the activation call raises failure f: the except block classifies it
CallRaises(r, f) ==
    /\ pc[r] = "calling"
    /\ LET st == StatusOf[f]
       IN /\ status' = [status EXCEPT ![r] = st]
          /\ stats' = [stats EXCEPT ![r] = StatsOnFailure(@, st)]
          /\ Traced(r, st)
    /\ error_message' = [error_message EXCEPT ![r] = f]
    /\ pc' = [pc EXCEPT ![r] = "finally"]
    /\ UNCHANGED <<outerVars, engineVars, mainVars, r_running, chunk,
                   response, handed, slept, calls, stopVars>>

\* The runner after the finally block when store_activity returned.
Stored(r) ==
    /\ pc' = [pc EXCEPT ![r] = "loop_top"]
    /\ UNCHANGED <<stats, r_running, chunk>>

\* Mutant: the storage exception is not caught in the finally block and
\* reaches run()'s handler, which counts an error.
StoreFailedCounted(r) ==
    /\ pc' = [pc EXCEPT ![r] = "loop_top"]
    /\ stats' = [stats EXCEPT ![r].errors = @ + 1]
    /\ UNCHANGED <<r_running, chunk>>

\* The runner after the finally block when store_activity raised: the
\* exception is logged and swallowed.
StoreFailed(r) ==
    /\ pc' = [pc EXCEPT ![r] = "loop_top"]
    /\ UNCHANGED <<stats, r_running, chunk>>

\* the finally block with a storage: store_activity is called and returns
\* (ok) or raises
Record(r, ok) ==
    /\ pc[r] = "finally"
    /\ activity_storage
    /\ handed' = IF tracing
                 THEN [handed EXCEPT ![r] =
                          Append(@, [rec |-> ActivityRecord(r), stored |-> ok])]
                 ELSE handed
    /\ IF ok THEN Stored(r) ELSE StoreFailed(r)
    /\ response' = [response EXCEPT ![r] = FALSE]
    /\ status' = [status EXCEPT ![r] = "none"]
    /\ error_message' = [error_message EXCEPT ![r] = NoError]
    /\ UNCHANGED <<outerVars, engineVars, mainVars, outcomes, slept, calls,
                   stopVars>>

\* the finally block without a storage: nothing is handed over
NoRecord(r) ==
    /\ pc[r] = "finally"
    /\ ~activity_storage
    /\ pc' = [pc EXCEPT ![r] = "loop_top"]
    /\ response' = [response EXCEPT ![r] = FALSE]
    /\ status' = [status EXCEPT ![r] = "none"]
    /\ error_message' = [error_message EXCEPT ![r] = NoError]
    /\ UNCHANGED <<outerVars, engineVars, mainVars, r_running, stats, chunk,
                   histVars, stopVars>>

\* Mutant: the next activation follows the wait whether the wait ran to its
\* end or was left by `break`.
AfterWaitAlways(r) == "activate"

\* Where run() goes when its wait is over (the `for` is exhausted or left by
\* `break`): `if not self.running: break`, else the next activation.
AfterWait(r) == IF r_running[r] THEN "activate" ELSE "done"

\* run(): `while self.running:` and the head of the wait.  The flag is read
\* by consecutive statements of this thread and is only ever cleared while
\* the loop runs, so the reads are taken as one.
LoopTop(r) ==
    /\ pc[r] = "loop_top"
    /\ pc' = [pc EXCEPT ![r] =
                IF ~r_running[r] THEN "done"
                ELSE IF Chunks(r) = 0 THEN AfterWait(r)
                ELSE "sleeping"]
    /\ chunk' = [chunk EXCEPT ![r] = 0]
    /\ UNCHANGED <<outerVars, engineVars, mainVars, r_running, stats,
                   localVars, histVars, stopVars>>

\* Mutant: the wait does not look at the flag between chunks.
SleepChunkUninterrupted(r) ==
    /\ pc[r] = "sleeping"
    /\ chunk' = [chunk EXCEPT ![r] = @ + 1]
    /\ pc' = [pc EXCEPT ![r] =
                IF chunk[r] + 1 < Chunks(r) THEN "sleeping" ELSE AfterWait(r)]
    /\ slept' = IF tracing THEN [slept EXCEPT ![r] = @ + 1] ELSE slept
    /\ UNCHANGED <<outerVars, engineVars, mainVars, r_running, stats,
                   localVars, outcomes, handed, calls, stopVars>>

\* run(): time.sleep(chunk_size) returns; the next chunk is slept unless the
\* `for` is exhausted or `if not self.running: break` leaves it
SleepChunk(r) ==
    /\ pc[r] = "sleeping"
    /\ chunk' = [chunk EXCEPT ![r] = @ + 1]
    /\ pc' = [pc EXCEPT ![r] =
                IF chunk[r] + 1 < Chunks(r) /\ r_running[r]
                THEN "sleeping" ELSE AfterWait(r)]
    /\ slept' = IF tracing THEN [slept EXCEPT ![r] = @ + 1] ELSE slept
    /\ UNCHANGED <<outerVars, engineVars, mainVars, r_running, stats,
                   localVars, outcomes, handed, calls, stopVars>>

(***************************************************************************)
(* AgentAutonomousEngine.stop                                              *)
(***************************************************************************)
\* Mutant: the flag is flipped instead of cleared.
SignalRunnerFlips(flags, r) == [flags EXCEPT ![r] = ~@]

\* runner.running = False
SignalRunner(flags, r) == [flags EXCEPT ![r] = FALSE]

\* stop() run to its end with no other thread taking a step, on the engine
\* state e = [running, r_running, agent_runners]: the loop over
\* agent_runners.items() from position n on
RECURSIVE SignalFrom(_, _, _)
SignalFrom(flags, reg, n) ==
    IF n > Len(reg) THEN flags
    ELSE SignalFrom(SignalRunner(flags, reg[n].runner), reg, n + 1)

StopCall(e) ==
    [running |-> FALSE,
     r_running |-> SignalFrom(e.r_running, e.agent_runners, 1),
     agent_runners |-> e.agent_runners]

\* stop(): self.running = False, and the iterator over agent_runners.items()
StopBegin ==
    /\ ~tracing
    /\ spc \in {"idle", "returned", "raised"}
    /\ stops < MaxStops
    /\ running' = FALSE
    /\ it_pos' = 1
    /\ it_size' = Len(agent_runners)
    /\ spc' = "iter"
    /\ stops' = stops + 1
    /\ UNCHANGED <<outerVars, agent_runners, agent_threads, mainVars, pc,
                   r_running, stats, chunk, localVars, histVars>>

\* Mutant: stop() also clears the last activation time of the runner it
\* signals.
StopSignalResets ==
    /\ spc = "iter"
    /\ Len(agent_runners) = it_size
    /\ it_pos <= it_size
    /\ r_running' = SignalRunner(r_running, agent_runners[it_pos].runner)
    /\ stats' = [stats EXCEPT ![agent_runners[it_pos].runner].last_activation = 0]
    /\ it_pos' = it_pos + 1
    /\ UNCHANGED <<outerVars, engineVars, mainVars, pc, chunk,
                   localVars, histVars, spc, it_size, stops>>

\* stop(): one iteration of the loop: the next runner is told to stop
StopSignal ==
    /\ spc = "iter"
    /\ Len(agent_runners) = it_size
    /\ it_pos <= it_size
    /\ r_running' = SignalRunner(r_running, agent_runners[it_pos].runner)
    /\ it_pos' = it_pos + 1
    /\ UNCHANGED <<outerVars, engineVars, mainVars, pc, stats, chunk,
                   localVars, histVars, spc, it_size, stops>>

\* stop(): the iterator is exhausted and stop() returns
StopReturn ==
    /\ spc = "iter"
    /\ Len(agent_runners) = it_size
    /\ it_pos > it_size
    /\ spc' = "returned"
    /\ UNCHANGED <<outerVars, engineVars, mainVars, pc, r_running, stats,
                   chunk, localVars, histVars, it_pos, it_size, stops>>

\* stop(): start() added a key to agent_runners during the iteration: the
\* dict iterator raises RuntimeError out of stop()
StopRaise ==
    /\ spc = "iter"
    /\ Len(agent_runners) # it_size
    /\ spc' = "raised"
    /\ UNCHANGED <<outerVars, engineVars, mainVars, pc, r_running, stats,
                   chunk, localVars, histVars, it_pos, it_size, stops>>

(***************************************************************************)
(* The engine: start(), the runner threads, and stop() called from another *)
(* thread.                                                                 *)
(***************************************************************************)
Runner(r, F) ==
    \/ RunBegin(r)
    \/ ActivateCall(r)
    \/ CallReturns(r)
    \/ \E f \in F : CallRaises(r, f)
    \/ \E ok \in BOOLEAN : Record(r, ok)
    \/ NoRecord(r)
    \/ LoopTop(r)
    \/ SleepChunk(r)

Next ==
    \/ StartSelect
    \/ Launch
    \/ LaunchFails
    \/ Wait
    \/ \E r \in Slots : Runner(r, EngineFailures)
    \/ StopBegin
    \/ StopSignal
    \/ StopReturn
    \/ StopRaise

Spec == Init /\ [][Next]_vars

\* The engine with a main thread that goes on: the wait loop of start()
\* wakes every half second and tests its conditions.  Nothing is assumed of
\* the runner threads or of the caller of stop().
SpecStart == Init /\ [][Next]_vars /\ WF_vars(Wait)

\* The engine under fair scheduling: start(), every runner thread and the
\* thread in stop() each go on while they can, and an activation call made
\* returns or raises.
SpecFair ==
    /\ Init
    /\ [][Next]_vars
    /\ WF_vars(StartSelect \/ Launch \/ Wait)
    /\ \A r \in Slots : WF_vars(Runner(r, EngineFailures))
    /\ WF_vars(StopSignal \/ StopReturn \/ StopRaise)

(***************************************************************************)
(* One runner driven without an engine (src/tests/test_agent_runner.py):   *)
(* the runner is built, a thread executes run(), and the test clears the   *)
(* runner's flag.  The history of attempts and hand-offs is recorded.      *)
(***************************************************************************)
\* The runner under test.
It == 1

\* The intervals tried, in tenths of a second: less than a chunk, one chunk,
\* two chunks.
RunnerIntervals == {5, 10, 20}

InitRunner ==
    /\ \E iv \in RunnerIntervals : agents = << AgentConfig("a", TRUE, iv) >>
    /\ agent_ids = NoIds
    /\ activity_storage \in BOOLEAN
    /\ tracing = TRUE
    /\ budget = MaxTraced
    /\ mpc = "direct"
    /\ pc = [r \in Slots |-> IF r = It THEN "ready" ELSE "none"]
    /\ InitRest

\* the test: runner.running = False
ClearFlag ==
    /\ tracing
    /\ r_running[It]
    /\ r_running' = SignalRunner(r_running, It)
    /\ UNCHANGED <<outerVars, engineVars, mainVars, pc, stats, chunk,
                   localVars, histVars, stopVars>>

NextRunner ==
    \/ Runner(It, FailureIds)
    \/ ClearFlag

SpecRunner == InitRunner /\ [][NextRunner]_vars

(***************************************************************************)
(* AgentRunner.run with an interval that is not a number.  load_config     *)
(* passes on whatever the file holds, so `cycle_interval_minutes: null`    *)
(* reaches the runner as None; `None * 60` raises TypeError inside the     *)
(* `try` of the loop and run()'s own `except Exception` takes over.        *)
(***************************************************************************)
MaxFaults == 2

\* the handler's `for _ in range(10)`
RecoverChunks == 10

\* cycle_interval_minutes is None
NullInterval == 0 - 1

Measured(r) == agents[r].interval_tenths # NullInterval

\* run(): `sleep_seconds = self.agent_config.cycle_interval_minutes * 60`
\* raises; `except Exception`: self.stats["errors"] += 1, then the head of
\* the handler's wait
WaitRaises(r) ==
    /\ pc[r] = "loop_top"
    /\ r_running[r]
    /\ ~Measured(r)
    /\ stats[r].errors < MaxFaults + Len(outcomes[r])
    /\ stats' = [stats EXCEPT ![r].errors = @ + 1]
    /\ chunk' = [chunk EXCEPT ![r] = 0]
    /\ pc' = [pc EXCEPT ![r] = "recovering"]
    /\ UNCHANGED <<outerVars, engineVars, mainVars, r_running, localVars,
                   histVars, stopVars>>

\* the handler's wait: `if not self.running: break`, time.sleep(1); after
\* it the `while self.running:` is evaluated again
Recover(r) ==
    /\ pc[r] = "recovering"
    /\ IF r_running[r] /\ chunk[r] < RecoverChunks
       THEN /\ chunk' = [chunk EXCEPT ![r] = @ + 1]
            /\ pc' = pc
       ELSE /\ chunk' = chunk
            /\ pc' = [pc EXCEPT ![r] = "loop_top"]
    /\ UNCHANGED <<outerVars, engineVars, mainVars, r_running, stats,
                   localVars, histVars, stopVars>>

InitLoop ==
    /\ \E iv \in {NullInterval, ChunkTenths} :
            agents = << AgentConfig("a", TRUE, iv) >>
    /\ agent_ids = NoIds
    /\ activity_storage \in BOOLEAN
    /\ tracing = TRUE
    /\ budget = MaxTraced
    /\ mpc = "direct"
    /\ pc = [r \in Slots |-> IF r = It THEN "ready" ELSE "none"]
    /\ InitRest

NextLoop ==
    \/ RunBegin(It)
    \/ ActivateCall(It)
    \/ CallReturns(It)
    \/ \E f \in FailureIds : CallRaises(It, f)
    \/ \E ok \in BOOLEAN : Record(It, ok)
    \/ NoRecord(It)
    \/ (Measured(It) \/ ~r_running[It]) /\ LoopTop(It)
    \/ SleepChunk(It)
    \/ WaitRaises(It)
    \/ Recover(It)
    \/ ClearFlag

SpecLoop == InitLoop /\ [][NextLoop]_vars

(***************************************************************************)
(* AgentAutonomousEngine.print_status, and the timed scenario: an engine   *)
(* with one enabled agent whose activations always succeed                 *)
(* (src/tests/test_integration.py:40-70, where the client is a mock that   *)
(* returns), started and never stopped, with its status printed at any     *)
(* moment.                                                                 *)
(***************************************************************************)
\* Mutant: print_status stores the time it formatted for the table back
\* into the runner's stats.
PrintStatusFormats ==
    /\ table' = [n \in 1..Len(agent_runners) |->
                    LET s == stats[agent_runners[n].runner]
                    IN [agent_id |-> agent_runners[n].key,
                        cycles_completed |-> s.cycles_completed,
                        errors |-> s.errors,
                        last_activation |-> s.last_activation]]
    /\ stats' = [r \in Slots |->
                    IF r \in DictValues(agent_runners) /\ stats[r].last_activation # 0
                    THEN [stats[r] EXCEPT !.last_activation = -1]
                    ELSE stats[r]]
    /\ UNCHANGED <<configVars, loadVars, dbVars, signalVars, engineVars, mainVars, pc, r_running,
                   chunk, localVars, histVars, stopVars>>

\* print_status(): one row per registered runner, in the order of
\* agent_runners, with the runner's counters as they are read
PrintStatus ==
    /\ table' = [n \in 1..Len(agent_runners) |->
                    LET s == stats[agent_runners[n].runner]
                    IN [agent_id |-> agent_runners[n].key,
                        cycles_completed |-> s.cycles_completed,
                        errors |-> s.errors,
                        last_activation |-> s.last_activation]]
    /\ UNCHANGED <<configVars, loadVars, dbVars, signalVars, engineVars, mainVars, pc, r_running, stats,
                   chunk, localVars, histVars, stopVars>>

\* The engines whose status is printed: without agents, with one agent, and
\* with two.
StatusScenarios == {
    Scenario(<< >>, NoIds, TRUE),
    Scenario(<< AgentConfig("a", TRUE, 10) >>, NoIds, FALSE),
    Scenario(<< AgentConfig("a", TRUE, 10), AgentConfig("b", TRUE, 10) >>, NoIds, TRUE) }

\* An engine that is started and stopped while another thread prints its
\* status (src/tests/test_engine.py:81-109 print the status of an engine
\* without runners and of one with a runner).
InitStatus ==
    /\ \E sc \in StatusScenarios :
          /\ agents = sc.agents
          /\ agent_ids = sc.agent_ids
          /\ activity_storage = sc.activity_storage
    /\ tracing = FALSE
    /\ budget = MaxStatus
    /\ mpc = "idle"
    /\ pc = [r \in Slots |-> "none"]
    /\ InitRest

NextStatus == Next \/ PrintStatus

SpecStatus == InitStatus /\ [][NextStatus]_vars

\* The intervals of the timed scenario, in tenths of a second: one, two and
\* three chunks.
TimedIntervals == {10, 20, 30}

InitTimed ==
    /\ \E iv \in TimedIntervals : agents = << AgentConfig("a", TRUE, iv) >>
    /\ agent_ids = NoIds
    /\ activity_storage \in BOOLEAN
    /\ tracing = TRUE
    /\ budget = MaxTimed
    /\ mpc = "idle"
    /\ pc = [r \in Slots |-> "none"]
    /\ InitRest

NextTimed ==
    \/ StartSelect
    \/ Launch
    \/ \E r \in Slots :
          \/ RunBegin(r)
          \/ ActivateCall(r)
          \/ CallReturns(r)
          \/ \E ok \in BOOLEAN : Record(r, ok)
          \/ NoRecord(r)
          \/ LoopTop(r)
          \/ SleepChunk(r)
    \/ PrintStatus

SpecTimed == InitTimed /\ [][NextTimed]_vars

\* The time runner r has spent in time.sleep since run() began, in tenths of
\* a second: the time elapsed when everything else takes negligible time.
Elapsed(r) == slept[r] * ChunkTenths

\* Runner r is in the time.sleep call that spans elapsed time t.
AtElapsed(r, t) ==
    /\ pc[r] = "sleeping"
    /\ Elapsed(r) <= t
    /\ t <= Elapsed(r) + ChunkTenths

(***************************************************************************)
(* Two sibling runners of one engine.  The activations of the first never  *)
(* succeed: each of its calls raises, or stays blocked in the client.  The *)
(* second runner's calls return or raise.  The threads are scheduled       *)
(* fairly: start() and the second runner take their steps; nothing is      *)
(* assumed of the first runner, whose calls may never come back.  No       *)
(* activity storage is attached, so the runners share nothing but the      *)
(* client.                                                                 *)
(***************************************************************************)
Faulty == 1
Healthy == 2

\* The intervals of the siblings, in tenths of a second.
SiblingIntervals == {10, 20}

InitSiblings ==
    /\ \E iv \in SiblingIntervals, jv \in SiblingIntervals :
          agents = << AgentConfig("a", TRUE, iv), AgentConfig("b", TRUE, jv) >>
    /\ agent_ids = NoIds
    /\ activity_storage = FALSE
    /\ tracing = TRUE
    /\ budget = MaxSibling
    /\ mpc = "idle"
    /\ pc = [r \in Slots |-> "none"]
    /\ InitRest

\* a step of the thread of the runner whose activations never succeed
FaultyStep ==
    \/ RunBegin(Faulty)
    \/ ActivateCall(Faulty)
    \/ \E f \in EngineFailures : CallRaises(Faulty, f)
    \/ NoRecord(Faulty)
    \/ LoopTop(Faulty)
    \/ SleepChunk(Faulty)

\* a step of the thread of its sibling
HealthyStep ==
    \/ RunBegin(Healthy)
    \/ ActivateCall(Healthy)
    \/ CallReturns(Healthy)
    \/ \E f \in EngineFailures : CallRaises(Healthy, f)
    \/ NoRecord(Healthy)
    \/ LoopTop(Healthy)
    \/ SleepChunk(Healthy)

\* a step of the thread executing start()
StartStep == StartSelect \/ Launch

NextSiblings == StartStep \/ FaultyStep \/ HealthyStep

SpecSiblings ==
    /\ InitSiblings
    /\ [][NextSiblings]_vars
    /\ WF_vars(StartStep)
    /\ WF_vars(HealthyStep)

(***************************************************************************)
(* AgentAutonomousEngine._signal_handler.  The process is the one main()   *)
(* runs: the main thread executes start().  A signal is handled in the     *)
(* main thread, which leaves what it was doing until the handler returns;  *)
(* a signal delivered while a handler runs starts another call of the      *)
(* handler inside it.  The runner threads go on meanwhile.  sys.exit(0)    *)
(* ends the process: the runner threads are daemon threads.                *)
(***************************************************************************)
SIGINT == 2
SIGTERM == 15

\* The call of _signal_handler that is executing.
Top == handlers[Len(handlers)]

\* The handlers with the executing one replaced by frame f.
WithTop(f) == [handlers EXCEPT ![Len(handlers)] = f]

\* The signal sig is delivered: _signal_handler(sig, frame) is called
Deliver(sig) ==
    /\ ~exited
    /\ signals < MaxSignals
    /\ signals' = signals + 1
    /\ handlers' = Append(handlers, [hpc |-> "enter", pos |-> 0, signum |-> sig])
    /\ UNCHANGED <<configVars, loadVars, dbVars, table, stop_calls, exited, engineVars, mainVars,
                   pc, r_running, stats, chunk, localVars, histVars, stopVars>>

\* _signal_handler: self.stop() is called: self.running = False and the
\* iterator over agent_runners.items()
HandlerStopBegin ==
    /\ ~exited
    /\ handlers # << >>
    /\ Top.hpc = "enter"
    /\ running' = FALSE
    /\ stop_calls' = stop_calls + 1
    /\ handlers' = WithTop([Top EXCEPT !.hpc = "iter", !.pos = 1])
    /\ UNCHANGED <<configVars, loadVars, dbVars, table, signals, exited, agent_runners,
                   agent_threads, mainVars, pc, r_running, stats, chunk,
                   localVars, histVars, stopVars>>

\* stop() in the handler: the next runner is told to stop
HandlerStopSignal ==
    /\ ~exited
    /\ handlers # << >>
    /\ Top.hpc = "iter"
    /\ Top.pos <= Len(agent_runners)
    /\ r_running' = SignalRunner(r_running, agent_runners[Top.pos].runner)
    /\ handlers' = WithTop([Top EXCEPT !.pos = @ + 1])
    /\ UNCHANGED <<configVars, loadVars, dbVars, table, signals, stop_calls, exited, engineVars,
                   mainVars, pc, stats, chunk, localVars, histVars, stopVars>>

\* stop() in the handler returns; the handler calls time.sleep(1)
HandlerStopReturn ==
    /\ ~exited
    /\ handlers # << >>
    /\ Top.hpc = "iter"
    /\ Top.pos > Len(agent_runners)
    /\ handlers' = WithTop([Top EXCEPT !.hpc = "sleep"])
    /\ UNCHANGED <<configVars, loadVars, dbVars, table, signals, stop_calls, exited, engineVars,
                   mainVars, pc, r_running, stats, chunk, localVars, histVars,
                   stopVars>>

\* Mutant: the handler waits for the runner threads to end before it exits.
HandlerExitJoins ==
    /\ ~exited
    /\ handlers # << >>
    /\ Top.hpc = "sleep"
    /\ \A r \in DictValues(agent_threads) : ~IsAlive(r)
    /\ exited' = TRUE
    /\ UNCHANGED <<configVars, loadVars, dbVars, table, handlers, signals, stop_calls, engineVars,
                   mainVars, pc, r_running, stats, chunk, localVars, histVars,
                   stopVars>>

\* time.sleep(1) in the handler returns and sys.exit(0) ends the process
HandlerExit ==
    /\ ~exited
    /\ handlers # << >>
    /\ Top.hpc = "sleep"
    /\ exited' = TRUE
    /\ UNCHANGED <<configVars, loadVars, dbVars, table, handlers, signals, stop_calls, engineVars,
                   mainVars, pc, r_running, stats, chunk, localVars, histVars,
                   stopVars>>

\* a step of the handler in the main thread
HandlerStep ==
    \/ HandlerStopBegin
    \/ HandlerStopSignal
    \/ HandlerStopReturn
    \/ HandlerExit

\* a step of start() in the main thread, when no handler is running
MainStep ==
    /\ ~exited
    /\ handlers = << >>
    /\ StartSelect \/ Launch \/ Wait

\* a step of a runner thread, while the process lives
RunnerStep ==
    /\ ~exited
    /\ \E r \in Slots : Runner(r, EngineFailures)

\* The engines of the process: one agent, and two.
SignalScenarios == {
    Scenario(<< AgentConfig("a", TRUE, 10) >>, NoIds, TRUE),
    Scenario(<< AgentConfig("a", TRUE, 10), AgentConfig("b", TRUE, 20) >>, NoIds, FALSE) }

InitSignal ==
    /\ \E sc \in SignalScenarios :
          /\ agents = sc.agents
          /\ agent_ids = sc.agent_ids
          /\ activity_storage = sc.activity_storage
    /\ tracing = FALSE
    /\ budget = MaxSignalled
    /\ mpc = "idle"
    /\ pc = [r \in Slots |-> "none"]
    /\ InitRest

NextSignal ==
    \/ MainStep
    \/ RunnerStep
    \/ \E sig \in {SIGINT, SIGTERM} : Deliver(sig)
    \/ HandlerStep

\* The handler takes its steps; nothing is assumed of the runner threads,
\* which may stay in an activation call for ever.
SpecSignal ==
    /\ InitSignal
    /\ [][NextSignal]_vars
    /\ WF_vars(HandlerStep)

(***************************************************************************)
(* load_config, and its caller in main(): the configuration is loaded, and *)
(* then the engine is built from it, or main() exits on the error.         *)
(***************************************************************************)
\* d.get(key, default), and os.getenv(key, default)
Get(key, default) == IF key.has THEN key.val ELSE default

\* the truth value of a string or None
Truthy(s) == s \notin {None, ""}

\* config_dict.get('letta', {}).get('api_key'), letta being a mapping
FileApiKey(f) ==
    IF f.letta.kind = "dict" THEN Get(f.letta.api_key, None) ELSE None

\* Mutant: the environment is not consulted.
LettaApiKeyFileOnly(f, env) ==
    IF Truthy(FileApiKey(f)) THEN FileApiKey(f) ELSE ""

\* letta_dict.get('api_key') or os.getenv('LETTA_API_KEY', '')
LettaApiKey(f, env) ==
    IF Truthy(FileApiKey(f)) THEN FileApiKey(f) ELSE Get(env.LETTA_API_KEY, "")

\* Mutant: the old spelling is preferred.
CycleIntervalMinutesOldFirst(d) ==
    Get(d.interval_minutes, Get(d.cycle_interval_minutes, 15))

\* agent_dict.get('cycle_interval_minutes', agent_dict.get('interval_minutes', 15))
CycleIntervalMinutes(d) ==
    Get(d.cycle_interval_minutes, Get(d.interval_minutes, 15))

\* agent_dict.get('activation_instruction', agent_dict.get('prompt', ...))
ActivationInstruction(d) ==
    Get(d.activation_instruction, Get(d.prompt, "What should you do now?"))

\* the AgentConfig load_config builds from an entry of the agents list
AgentFrom(d) ==
    [agent_id |-> Get(d.agent_id, ""),
     cycle_interval_minutes |-> CycleIntervalMinutes(d),
     activation_instruction |-> ActivationInstruction(d),
     enabled |-> Get(d.enabled, TRUE)]

\* Mutant: a disabled entry is skipped as well.
RECURSIVE LoadAgentsEnabledOnly(_)
LoadAgentsEnabledOnly(list) ==
    IF list = << >> THEN << >>
    ELSE LET agent == AgentFrom(Head(list))
         IN IF Truthy(agent.agent_id) /\ agent.enabled
            THEN << agent >> \o LoadAgentsEnabledOnly(Tail(list))
            ELSE LoadAgentsEnabledOnly(Tail(list))

\* the loop over config_dict.get('agents', []): an agent with an identifier
\* is appended, another is skipped with a warning
RECURSIVE LoadAgents(_)
LoadAgents(list) ==
    IF list = << >> THEN << >>
    ELSE LET agent == AgentFrom(Head(list))
         IN IF Truthy(agent.agent_id)
            THEN << agent >> \o LoadAgents(Tail(list))
            ELSE LoadAgents(Tail(list))

\* config_dict.get('agents', []), agents being a list or absent
AgentsList(f) == IF f.agents.kind = "list" THEN f.agents.list ELSE << >>

\* What load_config returns or raises for the file f in the environment env.
\* A letta key without a value is None, and None.get raises AttributeError;
\* an agents key without a value is None, and iterating None raises TypeError.
LoadConfigResult(f, env) ==
    IF ~f.exists THEN [error |-> "FileNotFoundError"]
    ELSE IF f.letta.kind = "null" THEN [error |-> "AttributeError"]
    ELSE IF ~Truthy(LettaApiKey(f, env)) THEN [error |-> "ValueError"]
    ELSE IF f.agents.kind = "null" THEN [error |-> "TypeError"]
    ELSE [error |-> "none",
          letta_api_key |-> LettaApiKey(f, env),
          agents |-> LoadAgents(AgentsList(f))]

\* what the engine is, apart from its list of agents and the loader's state
builtVars == <<agent_ids, activity_storage, tracing, budget, dbVars, table, signalVars,
               engineVars, mainVars, pc, r_running, stats, chunk, localVars,
               histVars, stopVars>>

\* main(): config = load_config(args.config) returns or raises
LoadConfig ==
    /\ lpc = "idle"
    /\ config' = LoadConfigResult(config_file, environ)
    /\ lpc' = IF config'.error = "none" THEN "loaded" ELSE "failed"
    /\ UNCHANGED <<agents, config_file, environ, builtVars>>

\* main(): engine = AgentAutonomousEngine(config, ...): self.agents = config.agents
CreateEngine ==
    /\ lpc = "loaded"
    /\ agents' = [i \in 1..Len(config.agents) |->
                    AgentConfig(config.agents[i].agent_id, config.agents[i].enabled,
                                config.agents[i].cycle_interval_minutes * 600)]
    /\ lpc' = "engine"
    /\ UNCHANGED <<config_file, environ, config, builtVars>>

\* main(): the error of load_config is caught and reported, and sys.exit(1)
ExitOnError ==
    /\ lpc = "failed"
    /\ lpc' = "exit"
    /\ UNCHANGED <<agents, config_file, environ, config, builtVars>>

\* The entries of an agents list: every key absent or present.
AgentDicts ==
    [agent_id : {Absent(""), Present(""), Present("a"), Present("b")},
     enabled : {Absent(TRUE), Present(FALSE)},
     cycle_interval_minutes : {Absent(0), Present(5)},
     interval_minutes : {Absent(0), Present(30)},
     activation_instruction : {Absent(""), Present("new")},
     prompt : {Absent(""), Present("old")}]

\* The letta section: absent, without a value, or a mapping whose api_key is
\* absent, without a value, empty or set.
Lettas ==
    {[kind |-> "absent"], [kind |-> "null"]} \cup
    {[kind |-> "dict", api_key |-> k] :
        k \in {Absent(None), Present(None), Present(""), Present("file-key")}}

\* The entries that have an identifier and a flag at most.
PlainAgentDicts ==
    {d \in AgentDicts :
        /\ ~d.cycle_interval_minutes.has /\ ~d.interval_minutes.has
        /\ ~d.activation_instruction.has /\ ~d.prompt.has}

\* The entries without identifier or of agent "a", in all their spellings.
SpelledAgentDicts == {d \in AgentDicts : d.agent_id \in {Absent(""), Present("a")}}

\* The agents section: absent, without a value, or a list of up to
\* MaxEntries plain entries.
AgentsSections ==
    {[kind |-> "absent"], [kind |-> "null"]} \cup
    {[kind |-> "list", list |-> l] :
        l \in UNION {[1..n -> PlainAgentDicts] : n \in 0..MaxEntries}}

\* The environments: LETTA_API_KEY unset, empty or set.
Environs ==
    {[LETTA_API_KEY |-> e] : e \in {Absent(""), Present(""), Present("env-key")}}

\* There is no file.
InitNoFile ==
    /\ config_file = [exists |-> FALSE]
    /\ environ \in Environs

\* Every letta section and environment, with the lists of plain entries.
InitCredentials ==
    /\ \E l \in Lettas : \E a \in AgentsSections :
          config_file = [exists |-> TRUE, letta |-> l, agents |-> a]
    /\ environ \in Environs

\* The credential in the file, with every list of up to MaxEntries entries
\* in all their spellings.
InitSpellings ==
    /\ \E n \in 0..MaxEntries : \E l \in [1..n -> SpelledAgentDicts] :
          config_file = [exists |-> TRUE,
                         letta |-> [kind |-> "dict", api_key |-> Present("file-key")],
                         agents |-> [kind |-> "list", list |-> l]]
    /\ environ = [LETTA_API_KEY |-> Absent("")]

\* The files and environments load_config is tried on.  Reading the
\* credential and reading the agents are independent parts of load_config.
InitConfig ==
    /\ InitNoFile \/ InitCredentials \/ InitSpellings
    /\ lpc = "idle"
    /\ config = [error |-> "none"]
    /\ agents = << >>
    /\ agent_ids = NoIds
    /\ activity_storage = FALSE
    /\ tracing = FALSE
    /\ budget = 0
    /\ mpc = "idle"
    /\ pc = [r \in Slots |-> "none"]
    /\ NoStore
    /\ InitEngine

NextConfig ==
    \/ LoadConfig
    \/ CreateEngine
    \/ ExitOnError

SpecConfig == InitConfig /\ [][NextConfig]_vars

(***************************************************************************)
(* ActivityStorage (src/database.py): the runners store rows, time passes, *)
(* and the API reads an agent's statistics.                                *)
(***************************************************************************)
\* usage_tokens = int(usage.total_tokens) if usage.total_tokens else None,
\* for a response that may be None
UsageTokens(response_usage) ==
    IF response_usage.has /\ response_usage.val # 0
    THEN Present(response_usage.val)
    ELSE Absent(0)

\* The statuses _activate_agent passes to store_activity.
Statuses == {"success", "error", "rate_limit"}

\* What _activate_agent hands over with a status: a response, with its
\* total_tokens and the number of its tool calls, on success only.
Handovers ==
    {[status |-> "success", usage |-> u, tool_calls |-> n] :
        u \in {Absent(0), Present(0), Present(3)}, n \in {0, 1}} \cup
    {[status |-> s, usage |-> Absent(0), tool_calls |-> 0] :
        s \in Statuses \ {"success"}}

\* The display name of the agent with an identifier.
NameOf(agent_id) == IF agent_id = "a" THEN "Agent A" ELSE "Agent B"

\* store_activity: a row is added with timestamp=datetime.utcnow()
StoreActivity(agent_id, h) ==
    /\ Len(activities) < MaxRows
    /\ activities' = Append(activities,
                            [agent_id |-> agent_id,
                             agent_name |-> NameOf(agent_id),
                             timestamp |-> clock,
                             status |-> h.status,
                             usage_tokens |-> UsageTokens(h.usage),
                             tool_calls |-> h.tool_calls])
    /\ UNCHANGED <<configVars, loadVars, clock, result, listing, known, table, signalVars,
                   engineVars, mainVars, pc, r_running, stats, chunk, localVars,
                   histVars, stopVars>>

\* a day passes
Tick ==
    /\ clock < MaxClock
    /\ clock' = clock + 1
    /\ UNCHANGED <<configVars, loadVars, activities, result, listing, known, table, signalVars,
                   engineVars, mainVars, pc, r_running, stats, chunk, localVars,
                   histVars, stopVars>>

\* Mutant: the rows of every agent are taken.
RECURSIVE FilterAnyAgent(_, _, _)
FilterAnyAgent(rows, agent_id, start_time) ==
    IF rows = << >> THEN << >>
    ELSE IF Head(rows).timestamp >= start_time
         THEN << Head(rows) >> \o FilterAnyAgent(Tail(rows), agent_id, start_time)
         ELSE FilterAnyAgent(Tail(rows), agent_id, start_time)

\* query.filter(agent_id == agent_id, timestamp >= start_time).all()
RECURSIVE Filter(_, _, _)
Filter(rows, agent_id, start_time) ==
    IF rows = << >> THEN << >>
    ELSE IF Head(rows).agent_id = agent_id /\ Head(rows).timestamp >= start_time
         THEN << Head(rows) >> \o Filter(Tail(rows), agent_id, start_time)
         ELSE Filter(Tail(rows), agent_id, start_time)

\* sum(1 for a in activities if a.status == s)
RECURSIVE CountStatus(_, _)
CountStatus(rows, s) ==
    IF rows = << >> THEN 0
    ELSE (IF Head(rows).status = s THEN 1 ELSE 0) + CountStatus(Tail(rows), s)

\* sum(a.usage_tokens or 0 for a in activities)
RECURSIVE SumTokens(_)
SumTokens(rows) ==
    IF rows = << >> THEN 0
    ELSE Get(Head(rows).usage_tokens, 0) + SumTokens(Tail(rows))

\* sum(len(a.tool_calls) ... for a in activities)
RECURSIVE SumToolCalls(_)
SumToolCalls(rows) ==
    IF rows = << >> THEN 0
    ELSE Head(rows).tool_calls + SumToolCalls(Tail(rows))

\* round(total_tokens / total_cycles, 2), in hundredths; no quotient of the
\* bounded tables lies halfway between two hundredths
AvgTokens(total_tokens, total_cycles) ==
    (200 * total_tokens + total_cycles) \div (2 * total_cycles)

\* The dictionary get_agent_stats returns: the one for no rows has neither
\* agent_name nor period_days.
AgentStats(agent_id, days) ==
    LET rows == Filter(activities, agent_id, clock - days)
    IN IF rows = << >>
       THEN [agent_id |-> agent_id,
             total_cycles |-> 0,
             successful_cycles |-> 0,
             error_cycles |-> 0,
             rate_limit_cycles |-> 0,
             total_tool_calls |-> 0,
             total_tokens |-> 0,
             avg_tokens_per_cycle |-> 0]
       ELSE [agent_id |-> agent_id,
             agent_name |-> rows[1].agent_name,
             total_cycles |-> Len(rows),
             successful_cycles |-> CountStatus(rows, "success"),
             error_cycles |-> CountStatus(rows, "error"),
             rate_limit_cycles |-> CountStatus(rows, "rate_limit"),
             total_tool_calls |-> SumToolCalls(rows),
             total_tokens |-> SumTokens(rows),
             avg_tokens_per_cycle |-> AvgTokens(SumTokens(rows), Len(rows)),
             period_days |-> days]

\* get_agent_stats(agent_id, days) returns
GetAgentStats(agent_id, days) ==
    /\ result' = AgentStats(agent_id, days)
    /\ UNCHANGED <<configVars, loadVars, activities, clock, listing, known, table, signalVars,
                   engineVars, mainVars, pc, r_running, stats, chunk, localVars,
                   histVars, stopVars>>

\* The agents that store, and those asked about: one that stores and one
\* that never does.
StoredAgents == {"a", "b"}
AskedAgents == {"a", "zz"}

\* The windows asked for, in days: the API's default is 7.
Days == {1, 7}

InitStore ==
    /\ agents = << >>
    /\ agent_ids = NoIds
    /\ activity_storage = TRUE
    /\ tracing = FALSE
    /\ budget = 0
    /\ mpc = "idle"
    /\ pc = [r \in Slots |-> "none"]
    /\ InitRest

NextStore ==
    \/ \E a \in StoredAgents : \E h \in Handovers : StoreActivity(a, h)
    \/ Tick
    \/ \E a \in AskedAgents : \E d \in Days : GetAgentStats(a, d)

SpecStore == InitStore /\ [][NextStore]_vars

(***************************************************************************)
(* ActivityStorage.get_activities: a client takes the pages of one query,  *)
(* at offsets 0, limit, 2*limit, ..., until a page comes back short.  The  *)
(* table is not written while the pages are taken.                         *)
(***************************************************************************)
\* The ids (row numbers) of the rows that pass the filters of query q: a
\* filter is applied when its argument is truthy.
Matching(q) ==
    {i \in 1..Len(activities) :
        /\ Truthy(q.agent_id) => activities[i].agent_id = q.agent_id
        /\ q.start_time.has => activities[i].timestamp >= q.start_time.val
        /\ q.end_time.has => activities[i].timestamp <= q.end_time.val}

\* order_by(timestamp.desc()): the orders the database may give the rows of
\* S in.  Rows of one timestamp come in any order, and not in the same order
\* in every query: the statement names no second sort key.
Orderings(S) ==
    {o \in [1..Cardinality(S) -> S] :
        /\ \A i \in DOMAIN o : \A j \in DOMAIN o : i # j => o[i] # o[j]
        /\ \A i \in DOMAIN o : \A j \in DOMAIN o :
              i < j => activities[o[i]].timestamp >= activities[o[j]].timestamp}

\* .offset(offset).limit(limit) of the ordered rows o
Page(o, offset, limit) ==
    [k \in 1..(IF Len(o) - offset < 0 THEN 0
               ELSE IF Len(o) - offset < limit THEN Len(o) - offset
               ELSE limit) |-> o[offset + k]]

\* get_activities(agent_id, limit, offset=0, start_time, end_time): the
\* first page of query q
FirstPage(q) ==
    /\ ~listing.open
    /\ \E o \in Orderings(Matching(q)) :
          listing' = [open |-> TRUE, query |-> q,
                      pages |-> << Page(o, 0, q.limit) >>]
    /\ UNCHANGED <<configVars, loadVars, activities, clock, result, known,
                   table, signalVars, engineVars, mainVars, pc, r_running,
                   stats, chunk, localVars, histVars, stopVars>>

\* get_activities(..., offset=n*limit): the next page of the query, asked
\* for when the page before was full
NextPage ==
    /\ listing.open
    /\ Len(listing.pages[Len(listing.pages)]) = listing.query.limit
    /\ \E o \in Orderings(Matching(listing.query)) :
          listing' = [listing EXCEPT !.pages =
                        Append(@, Page(o, Len(listing.pages) * listing.query.limit,
                                       listing.query.limit))]
    /\ UNCHANGED <<configVars, loadVars, activities, clock, result, known,
                   table, signalVars, engineVars, mainVars, pc, r_running,
                   stats, chunk, localVars, histVars, stopVars>>

\* The queries: every agent or agent "a", pages of one or two rows, with and
\* without a start and an end of the time range.
Queries ==
    [agent_id : {None, "a"},
     limit : {1, 2},
     start_time : {Absent(0), Present(1)},
     end_time : {Absent(0), Present(1)}]

\* The rows stored before the pages are taken: successes and errors.
ListedHandovers ==
    {h \in Handovers :
        \/ h.status = "error"
        \/ h.status = "success" /\ h.usage = Present(3) /\ h.tool_calls = 1}

NextList ==
    \/ /\ ~listing.open
       /\ \E a \in StoredAgents : \E h \in ListedHandovers : StoreActivity(a, h)
    \/ /\ ~listing.open
       /\ Tick
    \/ \E q \in Queries : FirstPage(q)
    \/ NextPage

SpecList == InitStore /\ [][NextList]_vars

(***************************************************************************)
(* ActivityStorage.get_agents                                              *)
(***************************************************************************)
\* The row numbers of agent a's rows.
RowsOf(a) == {i \in 1..Len(activities) : activities[i].agent_id = a}

\* the subquery: func.max(timestamp) ... group_by(agent_id)
LatestTimestamp(a) ==
    CHOOSE t \in {activities[i].timestamp : i \in RowsOf(a)} :
        \A i \in RowsOf(a) : activities[i].timestamp <= t

\* the join: every row whose agent_id and timestamp equal a row of the
\* subquery
Joined ==
    {i \in 1..Len(activities) :
        activities[i].timestamp = LatestTimestamp(activities[i].agent_id)}

\* _get_agent_cycle_count
AgentCycleCount(a) == Cardinality(RowsOf(a))

\* the dictionary built for row i of the join
AgentEntry(i) ==
    [agent_id |-> activities[i].agent_id,
     agent_name |-> activities[i].agent_name,
     last_activity |-> activities[i].timestamp,
     total_cycles |-> AgentCycleCount(activities[i].agent_id)]

\* The arrangements of the rows S: the query names no order.
Arrangements(S) ==
    {o \in [1..Cardinality(S) -> S] :
        \A i \in DOMAIN o : \A j \in DOMAIN o : i # j => o[i] # o[j]}

\* get_agents() returns
GetAgents ==
    /\ \E o \in Arrangements(Joined) :
          known' = [k \in DOMAIN o |-> AgentEntry(o[k])]
    /\ UNCHANGED <<configVars, loadVars, activities, clock, result, listing,
                   table, signalVars, engineVars, mainVars, pc, r_running,
                   stats, chunk, localVars, histVars, stopVars>>

NextAgents ==
    \/ \E a \in StoredAgents : \E h \in ListedHandovers : StoreActivity(a, h)
    \/ Tick
    \/ GetAgents

SpecAgents == InitStore /\ [][NextAgents]_vars

(***************************************************************************)
(* Properties.                                                             *)
(***************************************************************************)
\* The activation call of runner r returns or raises in this step, and its
\* outcome is classified st.
Classified(r, st) ==
    pc[r] = "calling" /\ pc'[r] = "finally" /\ status'[r] = st

\* C1: a successful activation (the call returns without raising) adds
\* exactly 1 to the runner's cycles_completed and leaves its errors alone.
C1_SuccessCounts ==
    [][\A r \in Slots :
         Classified(r, "success") =>
             /\ stats'[r].cycles_completed = stats[r].cycles_completed + 1
             /\ stats'[r].errors = stats[r].errors]_vars

\* A success has just been counted.
C1_Witness ==
    pc[It] = "finally" /\ status[It] = "success"
        /\ stats[It].cycles_completed = 2

\* C2: an activation classified Error adds exactly 1 to the runner's errors
\* and leaves its cycles_completed alone.
C2_ErrorCounts ==
    [][\A r \in Slots :
         Classified(r, "error") =>
             /\ stats'[r].errors = stats[r].errors + 1
             /\ stats'[r].cycles_completed = stats[r].cycles_completed]_vars

\* An error has just been counted, after a success.
C2_Witness ==
    pc[It] = "finally" /\ status[It] = "error"
        /\ stats[It].errors = 1 /\ stats[It].cycles_completed = 1

\* C3: an activation classified RateLimited leaves both cycles_completed
\* and errors of the runner as they were.
C3_RateLimitCountsNothing ==
    [][\A r \in Slots :
         Classified(r, "rate_limit") =>
             /\ stats'[r].errors = stats[r].errors
             /\ stats'[r].cycles_completed = stats[r].cycles_completed]_vars

\* A rate limit has just been classified, after a success and an error.
C3_Witness ==
    pc[It] = "finally" /\ status[It] = "rate_limit"
        /\ stats[It].errors = 1 /\ stats[It].cycles_completed = 1

\* C4: a failure is classified RateLimited exactly when it reports
\* throttling or quota exhaustion (HTTP 429, rate-limit wording such as
\* "Rate limit exceeded" or "rate_limit", quota wording, in any letter
\* case), and Error otherwise.
C4_ClassifiedByMeaning ==
    \A r \in Slots :
        (pc[r] = "finally" /\ error_message[r] # NoError) =>
            status[r] = IF CoreOf(error_message[r]).throttling
                        THEN "rate_limit" ELSE "error"

\* C5: in every step, whatever thread takes it, no runner's
\* cycles_completed or errors decreases, and neither is ever negative.
C5_CountersMonotonic ==
    [][\A r \in Slots :
         /\ stats'[r].cycles_completed >= stats[r].cycles_completed
         /\ stats'[r].errors >= stats[r].errors
         /\ stats[r].cycles_completed >= 0
         /\ stats[r].errors >= 0]_vars

\* A runner has counted a success and then an error while stop() was called.
C5_Witness ==
    \E r \in Slots :
        stats[r].cycles_completed = 1 /\ stats[r].errors = 1 /\ stops >= 1

\* C6: start(), with or without agent_ids, never builds a runner or a
\* thread for an agent whose enabled flag is false, even when agent_ids
\* names it.
C6_DisabledNeverRun ==
    \A i \in 1..Len(agents) :
        ~agents[i].enabled =>
            /\ pc[i] = "none"
            /\ i \notin DictValues(agent_runners)
            /\ i \notin DictValues(agent_threads)

\* start() has launched its runners, and a disabled agent named in agent_ids
\* is not among them.
C6_Witness ==
    /\ mpc \in {"wait", "returned"}
    /\ agent_runners # << >>
    /\ agent_threads # << >>
    /\ \E i \in 1..Len(agents) :
          ~agents[i].enabled /\ agents[i].agent_id \in agent_ids.ids

\* C7: when stop() returns, the engine's running flag is false and so is
\* the running flag of every runner registered in the engine.
C7_AllStoppedAtReturn ==
    [][(spc = "iter" /\ spc' = "returned") =>
          /\ ~running'
          /\ \A r \in DictValues(agent_runners') : ~r_running'[r]]_vars

\* The engine's state that stop() reads and writes.
EngineState ==
    [running |-> running, r_running |-> r_running, agent_runners |-> agent_runners]

\* C8: calling stop() twice in succession leaves the engine's flag and the
\* runners' flags as calling it once does, whatever the engine's state:
\* never started, without runners, or with running runners.
C8_StopIdempotent ==
    StopCall(StopCall(EngineState)) = StopCall(EngineState)

\* An engine with two registered runners, both running: stop() changes it.
C8_Witness ==
    /\ running
    /\ Len(agent_runners) = 2
    /\ \A r \in DictValues(agent_runners) : r_running[r]
    /\ StopCall(EngineState) # EngineState

\* Runner r hands a record to store_activity in this step, and
\* store_activity raises.
StoreRaises(r) ==
    /\ pc[r] = "finally"
    /\ Len(handed'[r]) = Len(handed[r]) + 1
    /\ ~handed'[r][Len(handed'[r])].stored

\* Runner r hands a record to store_activity in this step, and
\* store_activity stores it.
StoreReturns(r) ==
    /\ pc[r] = "finally"
    /\ Len(handed'[r]) = Len(handed[r]) + 1
    /\ handed'[r][Len(handed'[r])].stored

\* C9: a cycle in which store_activity raises leaves the runner as the same
\* cycle in which it stores the record: in both, stats (cycles_completed,
\* errors, last_activation) and the running flag are untouched and run()
\* goes on at the top of its loop.
C9_RecorderFailureAbsorbed ==
    [][\A r \in Slots :
         (StoreRaises(r) \/ StoreReturns(r)) =>
             /\ stats'[r] = stats[r]
             /\ r_running'[r] = r_running[r]
             /\ pc'[r] = "loop_top"
             /\ chunk'[r] = chunk[r]]_vars

\* store_activity has raised in a cycle of every outcome kind.
C9_Witness ==
    \A st \in {"success", "rate_limit", "error"} :
        \E k \in 1..Len(handed[It]) :
            handed[It][k].rec.status = st /\ ~handed[It][k].stored

\* The tags of the records a runner handed over, in order.
HandedTags(r) == [k \in 1..Len(handed[r]) |-> handed[r][k].rec.status]

\* Runner r is between two cycles.
BetweenCycles(r) == pc[r] \notin {"calling", "finally"}

\* C10 as stated: every activation attempt, whatever its outcome, is
\* followed by exactly one hand-over to the recorder, tagged with the
\* attempt's classification.
C10_EveryAttemptHanded ==
    \A r \in Slots :
        /\ BetweenCycles(r) => HandedTags(r) = outcomes[r]
        /\ pc[r] = "finally" => Len(handed[r]) = Len(outcomes[r]) - 1

\* C10, amended: with a storage attached, every activation attempt is
\* followed by exactly one hand-over tagged with the attempt's
\* classification, and without a storage nothing is handed over; attempts
\* that all fail with "429 rate limit" are all tagged rate_limit and leave
\* errors and cycles_completed at 0.
C10_AttemptsHandedToStorage ==
    /\ StatusOf[1] = "rate_limit"
    /\ \A r \in Slots :
          /\ BetweenCycles(r) =>
                HandedTags(r) = IF activity_storage THEN outcomes[r] ELSE << >>
          /\ (pc[r] = "finally" /\ activity_storage) =>
                HandedTags(r) = SubSeq(outcomes[r], 1, Len(outcomes[r]) - 1)
          /\ (\A k \in 1..Len(outcomes[r]) : outcomes[r][k] = "rate_limit") =>
                stats[r].errors = 0 /\ stats[r].cycles_completed = 0

\* Three attempts were all rate limited and all handed to the storage.
C10_Witness ==
    /\ activity_storage
    /\ Len(outcomes[It]) >= 3
    /\ \A k \in 1..Len(outcomes[It]) : outcomes[It][k] = "rate_limit"
    /\ Len(handed[It]) = Len(outcomes[It])
    /\ BetweenCycles(It)

\* C11: the first activation call of a runner is made before any interval
\* wait (no sleep chunk has elapsed), and every later activation call is
\* made after an interval wait that ran through all its chunks.
C11_FirstActivationImmediate ==
    \A r \in Slots :
        pc[r] = "calling" =>
            IF calls[r] = 1
            THEN slept[r] = 0 /\ chunk[r] = 0
            ELSE chunk[r] = Chunks(r) /\ slept[r] >= Chunks(r)

\* The second activation call is being made, after a wait of two chunks.
C11_Witness ==
    /\ pc[It] = "calling"
    /\ calls[It] = 2
    /\ Chunks(It) = 2
    /\ slept[It] = 2

\* Three and a half intervals of runner r, in tenths of a second.
ThreeAndHalf(r) == (35 * agents[r].interval_tenths) \div 10

\* C12: one enabled agent, an interval of a whole number of chunks,
\* activations that always succeed in negligible time: the status printed
\* at elapsed time 3.5 intervals shows cycles_completed = 4 and errors = 0.
C12_FourCyclesAtThreeAndHalf ==
    [][\A r \in DictValues(agent_runners) :
         (PrintStatus /\ AtElapsed(r, ThreeAndHalf(r))) =>
             /\ Len(table') = 1
             /\ table'[1].cycles_completed = 4
             /\ table'[1].errors = 0]_vars

\* The status was printed at 3.5 intervals of two chunks: seven chunks have
\* elapsed and the table shows the four cycles.
C12_Witness ==
    /\ AtElapsed(1, ThreeAndHalf(1))
    /\ agents[1].interval_tenths = 20
    /\ slept[1] = 7
    /\ Len(table) = 1
    /\ table[1].cycles_completed = 4

\* The failures whose core message is "connection refused".
ConnectionRefused == {f \in FailureIds : CoreOf(f) = Cores[2]}

\* C13: when the first activation of a runner raises "connection refused",
\* a failure that is not throttling, and every later activation succeeds,
\* then after any number n >= 1 of attempts the runner has errors = 1 and
\* cycles_completed = n - 1.
C13_RefusedOnceThenSucceeds ==
    /\ \A f \in ConnectionRefused : StatusOf[f] = "error"
    /\ \A r \in Slots :
          LET n == Len(outcomes[r])
          IN (/\ n >= 1
              /\ outcomes[r][1] = "error"
              /\ \A k \in 2..n : outcomes[r][k] = "success") =>
                 /\ stats[r].errors = 1
                 /\ stats[r].cycles_completed = n - 1

\* An error followed by two successes.
C13_Witness ==
    /\ outcomes[It] = <<"error", "success", "success">>
    /\ stats[It].errors = 1
    /\ stats[It].cycles_completed = 2

\* No configured agent is enabled and, when identifiers were requested,
\* among them.
NothingSelected ==
    ~ \E i \in 1..Len(agents) :
          /\ agents[i].enabled
          /\ agent_ids.ids = {} \/ agents[i].agent_id \in agent_ids.ids

\* C14: when the selected agent set is empty (no agents configured, none
\* enabled, or requested identifiers that match no configured agent),
\* start() returns without raising, builds no runner and no thread, and the
\* engine's running flag stays false.
C14_EmptySelectionNoOp ==
    NothingSelected =>
        /\ mpc \in {"idle", "returned"}
        /\ agent_runners = << >>
        /\ agent_threads = << >>
        /\ \A r \in Slots : pc[r] = "none"
        /\ ~running

\* start() has returned for an engine whose only, enabled, agent is not
\* among the identifiers requested.
C14_Witness ==
    /\ mpc = "returned"
    /\ agents # << >>
    /\ \A i \in 1..Len(agents) : agents[i].enabled
    /\ agent_ids.ids # {}
    /\ NothingSelected

\* The stop() call that has returned found runner r registered and cleared
\* its flag.
SignalledByStop(r) ==
    /\ spc = "returned"
    /\ \E n \in 1..it_size : agent_runners[n].runner = r

\* Runner r makes an activation call in this step.
BeginsActivation(r) == pc[r] = "activate" /\ pc'[r] = "calling"

\* C15: after stop() has returned, no runner it signalled begins a new
\* activation call; only a call already in flight may still complete.
C15_NoActivationAfterStop ==
    [][\A r \in Slots : SignalledByStop(r) => ~BeginsActivation(r)]_vars

\* Runner r is in its interval wait and its flag has been cleared.
WaitingStopped(r) == pc[r] = "sleeping" /\ ~r_running[r]

\* C16: a runner that is in its interval wait when its running flag is
\* cleared completes at most one further sleep chunk: the chunk it is in is
\* its last, and when that chunk returns the runner leaves its loop, however
\* many chunks of the interval remain.
C16_StopInterruptsWait ==
    [][\A r \in Slots :
         (WaitingStopped(r) /\ <<pc[r], chunk[r]>> # <<pc'[r], chunk'[r]>>) =>
             /\ chunk'[r] = chunk[r] + 1
             /\ pc'[r] = "done"]_vars

\* A runner stopped during the first chunk of a wait of two chunks left its
\* loop after that chunk.
C16_Witness ==
    \E r \in Slots :
        /\ pc[r] = "done"
        /\ stops >= 1
        /\ Chunks(r) = 2
        /\ chunk[r] = 1

\* The chunks of one interval wait of runner r, from its configuration.
IntervalChunks(r) == agents[r].interval_tenths \div ChunkTenths

\* Runner r is in its wait or at the top of its loop and leaves it in this
\* step.
LeavesWait(r) ==
    /\ pc[r] \in {"loop_top", "sleeping"}
    /\ pc'[r] \notin {"loop_top", "sleeping"}

\* C17: an Error or RateLimited outcome leaves the runner running, and the
\* runner waits the same fixed number of chunks after it as after a Success:
\* whatever the outcomes so far, every activation call is made after exactly
\* one interval wait per earlier attempt, and a runner still running at the
\* end of its wait attempts the next activation.
C17_NoBackoff ==
    /\ [](\A r \in Slots :
            pc[r] = "calling" => slept[r] = (calls[r] - 1) * IntervalChunks(r))
    /\ [][\A r \in Slots :
            /\ (Classified(r, "error") \/ Classified(r, "rate_limit")) =>
                   r_running'[r] = r_running[r]
            /\ (LeavesWait(r) /\ r_running[r]) =>
                   pc'[r] = "activate" /\ chunk'[r] = IntervalChunks(r)]_vars

\* The third activation call follows an error and a rate limit, after two
\* waits of two chunks each.
C17_Witness ==
    /\ pc[It] = "calling"
    /\ outcomes[It] = <<"error", "rate_limit">>
    /\ IntervalChunks(It) = 2
    /\ slept[It] = 4
    /\ r_running[It]

\* C18: with two runners, one of which fails on every attempt or stays
\* blocked in its activation call, the other runner, once its thread is
\* started, goes on making its activation calls (under fair scheduling of
\* its thread), each after its own interval wait.
C18_SiblingKeepsActivating ==
    /\ \A k \in 0..(MaxSibling - 1) :
          (pc[Healthy] # "none" /\ calls[Healthy] = k) ~> (calls[Healthy] = k + 1)
    /\ [](pc[Healthy] = "calling" =>
             slept[Healthy] = (calls[Healthy] - 1) * IntervalChunks(Healthy))

\* The sibling has made all its attempts while the other runner, after one
\* failure, is blocked in its second call.
C18_Witness ==
    /\ Len(outcomes[Healthy]) = budget
    /\ Len(outcomes[Faulty]) = 1
    /\ outcomes[Faulty][1] # "success"
    /\ pc[Faulty] = "calling"

\* C19: no activation failure ends run(): whatever the call raises, the
\* runner goes on to the hand-over and back to its loop, and run() ends only
\* in a step that finds the runner's running flag cleared.
C19_FailureNeverEscapes ==
    [][\A r \in Slots :
         /\ (pc[r] = "calling" /\ pc'[r] # "calling") => pc'[r] = "finally"
         /\ (pc[r] = "finally" /\ pc'[r] # "finally") => pc'[r] = "loop_top"
         /\ (pc[r] # "done" /\ pc'[r] = "done") =>
                /\ ~r_running[r]
                /\ pc[r] \in {"loop_top", "sleeping"}]_vars

\* Every attempt of the runner failed, errors and a rate limit among them,
\* and run() ended after the flag was cleared.
C19_Witness ==
    /\ pc[It] = "done"
    /\ ~r_running[It]
    /\ Len(outcomes[It]) = budget
    /\ \A k \in 1..Len(outcomes[It]) : outcomes[It][k] # "success"
    /\ stats[It].errors >= 2

\* How many of the outcomes of runner r are st.
CountOutcomes(r, st) ==
    Cardinality({k \in 1..Len(outcomes[r]) : outcomes[r][k] = st})

\* C20: the cycles of a runner are strictly sequential: a runner never has
\* two activation calls in flight, and when it makes an activation call
\* every earlier call has been classified, counted and, with a storage
\* attached, handed to store_activity, which has returned or raised.
C20_CyclesSequential ==
    \A r \in Slots :
        /\ calls[r] - Len(outcomes[r]) = IF pc[r] = "calling" THEN 1 ELSE 0
        /\ pc[r] = "calling" =>
              /\ stats[r].cycles_completed = CountOutcomes(r, "success")
              /\ stats[r].errors = CountOutcomes(r, "error")
              /\ Len(handed[r]) = IF activity_storage THEN Len(outcomes[r]) ELSE 0
              /\ status[r] = "success" /\ error_message[r] = NoError

\* The third activation call is in flight; the two before it were handed to
\* the storage, which raised for one of them.
C20_Witness ==
    /\ pc[It] = "calling"
    /\ calls[It] = 3
    /\ Len(handed[It]) = 2
    /\ \E k \in 1..2 : ~handed[It][k].stored

\* The thread of runner r, and no other thread, takes this step.
OwnStep(r) ==
    /\ pc[r] # "none"
    /\ pc'[r] # pc[r] \/ chunk'[r] # chunk[r]
    /\ \A q \in Slots \ {r} : pc'[q] = pc[q] /\ chunk'[q] = chunk[q]
    /\ mpc' = mpc /\ to_run' = to_run
    /\ spc' = spc /\ it_pos' = it_pos
    /\ table' = table

\* C21: the stats of a runner (cycles_completed, errors, last_activation,
\* started_at) change only in steps of that runner's own thread: no step of
\* another runner, of start(), of stop() or of print_status changes them.
C21_StatsOwnedByRunner ==
    [][\A r \in Slots : stats'[r] # stats[r] => OwnStep(r)]_vars

\* stop() returned while a runner was in its activation call; the call has
\* returned since and the runner has counted it.
C21_Witness ==
    \E r \in Slots :
        /\ spc = "returned"
        /\ ~r_running[r]
        /\ pc[r] = "finally"
        /\ stats[r].cycles_completed = 1
        /\ stats[r].last_activation # 0

\* C22: print_status changes nothing it reads: the stats and the running
\* flag of every runner, the registries of runners and of threads and the
\* engine's running flag are after it what they were before, whether the
\* registry is empty or not.
C22_StatusReadsOnly ==
    [][(table' # table \/ PrintStatus) =>
          /\ stats' = stats
          /\ r_running' = r_running
          /\ agent_runners' = agent_runners
          /\ agent_threads' = agent_threads
          /\ running' = running]_vars

\* The status of an engine with two runners was printed after one of them
\* completed a cycle.
C22_Witness ==
    /\ Len(table) = 2
    /\ \E n \in 1..2 : table[n].cycles_completed = 1
    /\ \E r \in Slots : stats[r].cycles_completed = 1


\* C23: a termination signal maps to exactly one call of stop(), also when
\* the signal is delivered repeatedly: when the process exits, stop() has
\* been called once.
C23_OneStopPerShutdown ==
    exited => stop_calls = 1

\* the state the handler leaves when the process exits: the engine's flag is
\* false, however many signals were delivered
C23_EndState ==
    exited => ~running

\* C24: once a termination signal is being handled the process exits, the
\* runner threads taking steps or not: the exit follows stop() and the
\* one-second wait and waits for no runner.
C24_ExitsAfterGrace ==
    (handlers # << >>) ~> exited

\* the process has exited while a runner is inside an activation call
C24_Witness ==
    /\ exited
    /\ \E r \in Slots : pc[r] = "calling"


\* some runner thread is alive
SomeAlive == \E r \in Slots : IsAlive(r)

C26_OneRunnerPerIdentifier ==
    \A p \in Slots : \A q \in Slots :
        (IsAlive(p) /\ IsAlive(q) /\ agents[p].agent_id = agents[q].agent_id)
            => (p = q /\ p \in DictValues(agent_runners))


\* the file gives no api_key, or an empty one
FileKeyMissing ==
    /\ config_file.exists
    /\ \/ config_file.letta.kind = "absent"
       \/ /\ config_file.letta.kind = "dict"
          /\ \/ ~config_file.letta.api_key.has
             \/ config_file.letta.api_key.val \in {None, ""}

\* the environment gives no LETTA_API_KEY, or an empty one
EnvKeyMissing ==
    \/ ~environ.LETTA_API_KEY.has
    \/ environ.LETTA_API_KEY.val = ""

\* the agents section of the file is a list, or absent
AgentsWellFormed ==
    /\ config_file.exists
    /\ config_file.agents.kind # "null"

\* C27: without a credential (no api_key in the file or an empty one, and
\* none in the environment) load_config fails with an error and no engine or
\* runner is created; with no api_key in the file and one in the environment
\* the load succeeds with the environment's value.
C27_CredentialRequired ==
    lpc # "idle" =>
        /\ (FileKeyMissing /\ EnvKeyMissing) =>
              /\ config.error = "ValueError"
              /\ lpc \in {"failed", "exit"}
              /\ agents = << >>
              /\ \A r \in Slots : pc[r] = "none"
        /\ (FileKeyMissing /\ ~EnvKeyMissing /\ AgentsWellFormed) =>
              /\ config.error = "none"
              /\ config.letta_api_key = environ.LETTA_API_KEY.val

\* the file's api_key is empty and the load has succeeded with the key of
\* the environment
C27_Witness ==
    /\ lpc = "loaded"
    /\ config_file.letta.kind = "dict"
    /\ config_file.letta.api_key = Present("")
    /\ config.letta_api_key = "env-key"

\* the load has failed for want of a credential and main() has exited
C27_WitnessFailed ==
    /\ lpc = "exit"
    /\ FileKeyMissing
    /\ EnvKeyMissing

\* an entry of the agents list has an identifier
HasIdentifier(d) == d.agent_id.has /\ d.agent_id.val # ""

\* the entries of the file's agents list that have an identifier, in order
Kept == SelectSeq(config_file.agents.list, HasIdentifier)

\* the file can be loaded: it has a letta section that is a mapping or
\* absent, a credential is given, and its agents section is a list
Loadable ==
    /\ config_file.exists
    /\ config_file.letta.kind # "null"
    /\ ~(FileKeyMissing /\ EnvKeyMissing)
    /\ config_file.agents.kind = "list"

\* C28: load_config drops the entries without an identifier, or with an
\* empty one, without failing, and keeps every other entry, enabled or
\* disabled, in the order of the file; an empty list loads.
C28_EntriesWithoutIdDropped ==
    (lpc # "idle" /\ Loadable) =>
        /\ config.error = "none"
        /\ Len(config.agents) = Len(Kept)
        /\ \A i \in 1..Len(Kept) :
              /\ config.agents[i].agent_id = Kept[i].agent_id.val
              /\ config.agents[i].enabled =
                    (IF Kept[i].enabled.has THEN Kept[i].enabled.val ELSE TRUE)

\* a list of an entry without identifier and a disabled entry has been
\* loaded as the disabled agent alone
C28_Witness ==
    /\ lpc = "loaded"
    /\ Loadable
    /\ Len(config_file.agents.list) = 2
    /\ ~HasIdentifier(config_file.agents.list[1])
    /\ Len(config.agents) = 1
    /\ ~config.agents[1].enabled

\* C29: of the two spellings of the interval and of the instruction, the old
\* one is used when it alone is present and the new one when both are.
C29_BothSpellings ==
    (lpc # "idle" /\ Loadable /\ Len(config.agents) = Len(Kept)) =>
        \A i \in 1..Len(Kept) :
            LET d == Kept[i]
                a == config.agents[i]
            IN /\ d.cycle_interval_minutes.has =>
                     a.cycle_interval_minutes = d.cycle_interval_minutes.val
               /\ (~d.cycle_interval_minutes.has /\ d.interval_minutes.has) =>
                     a.cycle_interval_minutes = d.interval_minutes.val
               /\ d.activation_instruction.has =>
                     a.activation_instruction = d.activation_instruction.val
               /\ (~d.activation_instruction.has /\ d.prompt.has) =>
                     a.activation_instruction = d.prompt.val

\* an entry with both spellings of the interval and the old spelling of the
\* instruction has been loaded with the new interval and the old instruction
C29_Witness ==
    /\ lpc = "loaded"
    /\ Loadable
    /\ \E i \in 1..Len(Kept) :
          /\ Kept[i].cycle_interval_minutes.has
          /\ Kept[i].interval_minutes.has
          /\ ~Kept[i].activation_instruction.has
          /\ Kept[i].prompt.has
          /\ config.agents[i].cycle_interval_minutes = 5
          /\ config.agents[i].activation_instruction = "old"


\* the rows of agent a that lie in the window of d days
InWindow(a, d) ==
    {i \in 1..Len(activities) :
        /\ activities[i].agent_id = a
        /\ activities[i].timestamp >= clock - d}

\* those of them with status s
WithStatus(a, d, s) == {i \in InWindow(a, d) : activities[i].status = s}

\* the token counts of the rows of S, a missing count taken as 0
RECURSIVE TokensOf(_)
TokensOf(S) ==
    IF S = {} THEN 0
    ELSE LET i == CHOOSE x \in S : TRUE
         IN (IF activities[i].usage_tokens.has
             THEN activities[i].usage_tokens.val ELSE 0) + TokensOf(S \ {i})

\* the answer r is about the rows of agent a in the window of d days
Aggregated(r, a, d) ==
    /\ r.agent_id = a
    /\ r.total_cycles = Cardinality(InWindow(a, d))
    /\ r.successful_cycles = Cardinality(WithStatus(a, d, "success"))
    /\ r.error_cycles = Cardinality(WithStatus(a, d, "error"))
    /\ r.rate_limit_cycles = Cardinality(WithStatus(a, d, "rate_limit"))
    /\ r.successful_cycles + r.error_cycles + r.rate_limit_cycles = r.total_cycles
    /\ r.total_tokens = TokensOf(InWindow(a, d))

\* C30: get_agent_stats(agent, days) aggregates the agent's rows inside the
\* trailing window: the three counts are the numbers of those rows by
\* status, their sum is total_cycles, and total_tokens is the sum of the
\* rows' token counts, a missing count taken as 0.
C30_StatsAggregateWindow ==
    [][\A a \in AskedAgents : \A d \in Days :
          GetAgentStats(a, d) => Aggregated(result', a, d)]_vars

\* an answer about three rows of one agent, one of them outside the window,
\* one without a token count and one with
C30_Witness ==
    /\ result.agent_id = "a"
    /\ "period_days" \in DOMAIN result
    /\ result.period_days = 1
    /\ Cardinality({i \in 1..Len(activities) : activities[i].agent_id = "a"}) = 3
    /\ Aggregated(result, "a", 1)
    /\ result.total_cycles = 2
    /\ result.error_cycles = 1
    /\ result.total_tokens = 3


\* the rows of the pages taken so far, in the order of their taking
RECURSIVE Flat(_)
Flat(pages) == IF pages = << >> THEN << >> ELSE Head(pages) \o Flat(Tail(pages))

\* the last page came back short: the client has taken every page
ListingComplete ==
    /\ listing.open
    /\ Len(listing.pages[Len(listing.pages)]) < listing.query.limit

\* every page holds rows that match the query, newest first, limit at most
PagesWellFormed ==
    listing.open =>
        \A n \in 1..Len(listing.pages) :
            LET p == listing.pages[n]
            IN /\ Len(p) <= listing.query.limit
               /\ \A k \in 1..Len(p) : p[k] \in Matching(listing.query)
               /\ \A k \in 1..Len(p) : \A m \in 1..Len(p) :
                     k < m => activities[p[k]].timestamp >= activities[p[m]].timestamp
               /\ \A k \in 1..Len(p) : \A m \in 1..Len(p) : k # m => p[k] # p[m]

\* no row is in two pages
PagesDisjoint ==
    LET f == Flat(listing.pages)
    IN \A k \in 1..Len(f) : \A m \in 1..Len(f) : k # m => f[k] # f[m]

\* the pages of a complete listing hold every matching row
PagesCover ==
    ListingComplete =>
        \A i \in Matching(listing.query) :
            \E k \in 1..Len(Flat(listing.pages)) : Flat(listing.pages)[k] = i

\* C31: get_activities returns the stored rows that match the filters,
\* newest first, from the offset on and limit at most; the pages taken at
\* offsets 0, limit, 2*limit, ... are pairwise disjoint and together hold
\* every matching row exactly once.
C31_PagesPartitionMatches ==
    PagesWellFormed /\ PagesDisjoint /\ PagesCover

\* no two rows that match the query of the listing have one timestamp
NoTies ==
    \A i \in Matching(listing.query) : \A j \in Matching(listing.query) :
        i # j => activities[i].timestamp # activities[j].timestamp

\* the pages partition the matching rows when no two of them share a
\* timestamp
PagesPartitionWithoutTies ==
    NoTies => C31_PagesPartitionMatches


\* every runner thread that was launched has ended
AllEnded == \A r \in Slots : pc[r] \in {"none", "done"}

\* the attempts that are followed here have been made
BudgetSpent == SumCounted(Slots) >= budget

\* C32: under fair scheduling and with activation calls that end, once
\* stop() has returned every runner thread that start() launched ends,
\* however stop() interleaves with the launch loop and with the first
\* statements of run().
C32_StoppedRunnersTerminate ==
    (spc = "returned") ~> (AllEnded \/ BudgetSpent)


\* C33: two consecutive activations of a running runner are separated by a
\* wait of at least the configured interval, whatever the interval: when a
\* runner begins an activation that is not its first, the chunks it has
\* slept since the last one add up to the interval at least.
C33_WaitsWholeInterval ==
    [][\A r \in Slots :
         (BeginsActivation(r) /\ calls[r] >= 1) =>
             chunk[r] * ChunkTenths >= agents[r].interval_tenths]_vars

\* the wait is the interval at least when the interval is a whole number of
\* chunks
WaitsWholeChunks ==
    [][\A r \in Slots :
         (BeginsActivation(r) /\ calls[r] >= 1
            /\ agents[r].interval_tenths % ChunkTenths = 0) =>
             chunk[r] * ChunkTenths >= agents[r].interval_tenths]_vars

\* C34: between cycles the number of activation attempts equals
\* cycles_completed + errors + the number of attempts classified as a rate
\* limit, and errors equals the number of attempts classified as an error:
\* nothing but such an attempt increments it.
C34_AttemptsAccounted ==
    \A r \in Slots :
        pc[r] # "calling" =>
            /\ calls[r] = stats[r].cycles_completed + stats[r].errors
                              + CountOutcomes(r, "rate_limit")
            /\ stats[r].errors = CountOutcomes(r, "error")

\* The part of C34 that the code keeps: errors is never less than the number
\* of attempts classified as an error, and cycles_completed is exactly the
\* number of successes.
ErrorsAtLeastFailedAttempts ==
    \A r \in Slots :
        /\ stats[r].errors >= CountOutcomes(r, "error")
        /\ stats[r].cycles_completed = CountOutcomes(r, "success")

\* The number of Success records among the first k records runner r handed
\* over.
SuccessesUpTo(r, k) ==
    Cardinality({j \in 1..k : handed[r][j].rec.status = "success"})

\* Runner r hands a record over in this step.
HandsOver(r) == Len(handed'[r]) = Len(handed[r]) + 1

\* C35: the cycle number of a record is the runner's cycles_completed when it
\* is recorded: the Success records of a runner carry 1, 2, 3, ... in order,
\* every RateLimited or Error record carries the number of the latest
\* earlier Success (0 if none), and the numbers never decrease.
C35_CycleNumbers ==
    /\ [](\A r \in Slots : \A k \in 1..Len(handed[r]) :
            /\ handed[r][k].rec.cycle_number = SuccessesUpTo(r, k)
            /\ k > 1 => handed[r][k - 1].rec.cycle_number
                            <= handed[r][k].rec.cycle_number)
    /\ [][\A r \in Slots :
            HandsOver(r) =>
                handed'[r][Len(handed'[r])].rec.cycle_number
                    = stats[r].cycles_completed]_vars

\* A Success, an Error and another Success were recorded, numbered 1, 1, 2.
C35_Witness ==
    /\ Len(handed[It]) = 3
    /\ handed[It][1].rec.status = "success"
    /\ handed[It][2].rec.status = "error"
    /\ handed[It][3].rec.status = "success"
    /\ handed[It][2].rec.cycle_number = 1
    /\ handed[It][3].rec.cycle_number = 2

\* C36: last_activation is unset until the first Success and changes only in
\* a step that counts a Success; a RateLimited or Error outcome, a recorder
\* failure, stop() and print_status leave it as it is.  started_at is set
\* when run() begins and never changes afterwards.
C36_StampsChangeOnlyOnSuccess ==
    /\ [](\A r \in Slots :
            /\ stats[r].cycles_completed = 0 => stats[r].last_activation = 0
            /\ pc[r] \in {"none", "ready"} => stats[r].started_at = 0)
    /\ [][\A r \in Slots :
            /\ stats'[r].last_activation # stats[r].last_activation =>
                   /\ pc[r] = "calling"
                   /\ stats'[r].cycles_completed = stats[r].cycles_completed + 1
            /\ stats'[r].started_at # stats[r].started_at =>
                   /\ pc[r] = "ready"
                   /\ stats[r].started_at = 0]_vars

\* A runner that failed once and whose status was printed after stop(): its
\* last_activation is still unset, its started_at is set.
C36_Witness ==
    \E r \in Slots :
        /\ stats[r].errors = 1
        /\ stats[r].last_activation = 0
        /\ stats[r].started_at # 0
        /\ spc = "returned"
        /\ table # << >>

\* start() computes agents_to_run in this step.
Selects == mpc = "idle" /\ mpc' # "idle"

\* The positions of the enabled agents, and of those among them whose
\* identifier is in S.
EnabledAt == {i \in 1..Len(agents) : agents[i].enabled}
EnabledIn(S) == {i \in EnabledAt : agents[i].agent_id \in S}

\* C37: a requested subset restricts the selection only when it is not
\* empty: start() with an empty list selects what start() with no subset
\* selects, all enabled agents; a non-empty subset selects exactly the
\* enabled agents whose identifier is in it.
C37_EmptySubsetSelectsAll ==
    [][Selects =>
         {to_run'[k] : k \in 1..Len(to_run')} =
             IF agent_ids.given /\ agent_ids.ids # {}
             THEN EnabledIn(agent_ids.ids)
             ELSE EnabledAt]_vars

\* start([]) on an engine with an enabled and a disabled agent has selected
\* the enabled one.
C37_Witness ==
    /\ agent_ids = Ids({})
    /\ Len(agents) = 2
    /\ mpc = "launch"
    /\ to_run = << 1 >>

\* C38: every record handed to the recorder has one of the three statuses;
\* it carries a response only if its status is success, and it carries an
\* error message if and only if its status is not success.
C38_RecordWellFormed ==
    \A r \in Slots : \A k \in 1..Len(handed[r]) :
        LET rec == handed[r][k].rec
        IN /\ rec.status \in {"success", "rate_limit", "error"}
           /\ rec.response => rec.status = "success"
           /\ rec.error_message <=> rec.status # "success"

\* A record of every status was handed over: the success with its response,
\* the other two with their message.
C38_Witness ==
    /\ Len(handed[It]) = 3
    /\ {handed[It][k].rec.status : k \in 1..3} = {"success", "rate_limit", "error"}
    /\ \E k \in 1..3 : handed[It][k].rec.response
    /\ \E k \in 1..3 :
          handed[It][k].rec.status = "rate_limit" /\ handed[It][k].rec.error_message

\* The fields of AgentStatsResponse: none of them has a default, period_days
\* is an int.
StatsResponseFields ==
    {"agent_id", "agent_name", "total_cycles", "successful_cycles",
     "error_cycles", "rate_limit_cycles", "total_tool_calls", "total_tokens",
     "avg_tokens_per_cycle", "period_days"}

\* get_agent_stats has answered.
StatsAnswered == result.agent_id # "none"

\* C39: every result of get_agent_stats, the one for an agent without
\* activity in the window included, has every field of the API's statistics
\* response model, so that the endpoint answers with a statistics object.
C39_StatsHaveAllFields ==
    StatsAnswered => StatsResponseFields \subseteq DOMAIN result

\* The part of C39 that the code keeps: the result for an agent with
\* activity in the window has exactly the fields of the response model.
StatsCompleteWithActivity ==
    (StatsAnswered /\ result.total_cycles > 0) =>
        DOMAIN result = StatsResponseFields

\* The agents that have stored at least one activity.
AgentsWithActivity == {activities[i].agent_id : i \in 1..Len(activities)}

\* The entries of a get_agents result ks that are about agent a.
EntriesOf(ks, a) == {k \in 1..Len(ks) : ks[k].agent_id = a}

\* Every entry of ks is about an agent with activity, with the agent's latest
\* timestamp and the number of all its rows.
EntriesRight(ks) ==
    \A k \in 1..Len(ks) :
        /\ ks[k].agent_id \in AgentsWithActivity
        /\ \A i \in RowsOf(ks[k].agent_id) :
              activities[i].timestamp <= ks[k].last_activity
        /\ \E i \in RowsOf(ks[k].agent_id) :
              activities[i].timestamp = ks[k].last_activity
        /\ ks[k].total_cycles = Cardinality(RowsOf(ks[k].agent_id))

\* C40: get_agents returns exactly one entry per distinct agent identifier
\* with stored activity, also when several of an agent's records share its
\* latest timestamp; the entry has the agent's latest timestamp as
\* last_activity and the number of all its records as total_cycles.
C40_OneEntryPerAgent ==
    [][GetAgents =>
         /\ \A a \in AgentsWithActivity : Cardinality(EntriesOf(known', a)) = 1
         /\ EntriesRight(known')]_vars

\* No agent has two records at its latest timestamp.
LatestUnique ==
    \A a \in AgentsWithActivity :
        Cardinality({i \in RowsOf(a) : activities[i].timestamp = LatestTimestamp(a)}) = 1

\* The part of C40 that the code keeps: every agent with activity has at
\* least one entry and every entry is right; there is exactly one entry per
\* agent when no agent has two records at its latest timestamp.
AgentsListedAtLeastOnce ==
    [][GetAgents =>
         /\ \A a \in AgentsWithActivity : Cardinality(EntriesOf(known', a)) >= 1
         /\ EntriesRight(known')
         /\ LatestUnique =>
               \A a \in AgentsWithActivity : Cardinality(EntriesOf(known', a)) = 1]_vars

=============================================================================
